---- MODULE Spec2Model ----
(***************************************************************************)
(* Effect nodes of the DAW's real-time audio engine: SyncDelayNode,        *)
(* ReverbNode, CompressorNode, DenoiserNode and AutoTuneNode.              *)
(*                                                                         *)
(* One behaviour follows one effect instance of kind `kind` from its       *)
(* construction.  Every handler of the instance (updateParams, a timer     *)
(* callback, destroy/dispose, a worklet event) is one action.              *)
(*                                                                         *)
(* Numbers.  JavaScript numbers are modelled as integers in a fixed unit   *)
(* per quantity, with three values standing for NaN, +Infinity and         *)
(* -Infinity:                                                              *)
(*   gains, mixes, levels      thousandths          (0.4   -> 400)         *)
(*   LFO modulation gains      millionths           (0.0005 -> 500)        *)
(*   frequencies               Hz                                          *)
(*   delay times               microseconds                                *)
(*   stereoOffset, timeMs      milliseconds                                *)
(*   time constants, attack,   microseconds         (0.02 s -> 20000)      *)
(*     release                                                             *)
(*   hold                      milliseconds                                *)
(*   decibels                  dB                                          *)
(*   hold counter              tenths of a detector tick                   *)
(***************************************************************************)
EXTENDS Integers, Sequences, FiniteSets, TLC

VARIABLES
    kind,       \* which effect node this instance is
    last,       \* the handler that ran last on the instance
    params,     \* this.params (this.cachedParams for AutoTuneNode)
    conn,       \* the connections between the instance's nodes: <<from, to>>
    log,        \* the calls the last handler made on graph nodes, in order
    timer,      \* the setInterval detector callback is registered
    lfo,        \* modLFO oscillator: "running" | "stopped" | "none"
    curve,      \* what the waveshaper curve was computed from (drive or mode)
    pan,        \* <<panL.pan.value, panR.pan.value>> (delay)
    gate,       \* DenoiserNode detector state (DENOISER only)
    worklet,    \* AutoTuneNode: "loading" | "ready" | "stalled" | "failed";
                \* this.worklet is set when "ready" or "stalled", the ready
                \* promise is resolved when "ready"
    rev,        \* ReverbNode: convolver.buffer, freezeBuffer, isFrozen
    run,        \* observation: detector ticks below threshold since the gate
                \* last opened on a tick; -1 before the first such tick
    ctx,        \* AudioEngine.ctx is set
    tracks,     \* store: present.tracks, track id -> the ids of its plugins
    tracksDSP,  \* AudioEngine.tracksDSP, track id -> its pluginChain
    intervals,  \* the plugin instances whose setInterval callback is registered
    instance,   \* what createPluginNode returned last
    editor,     \* PluginEditor: nodeInstance, error, attempts, awaiting
    copy,       \* the object getParams() returned last
    calc,       \* the last call of a pure function: its arguments and result
    history,    \* application state: past, present and future DAWStates
    before      \* observation (reverb): the convolver's buffer and the decay,
                \* size and mode when freeze was last switched on

\* the state of one effect instance
nodeVars ==
    <<kind, last, params, conn, log, timer, lfo, curve, pan, gate, worklet, rev,
      run>>

\* the state of the instance's host: engine, store, editor and callers
hostOnly ==
    <<ctx, tracks, tracksDSP, intervals, instance, editor, copy, calc, history>>

\* what the handlers of an effect instance leave alone
hostVars == <<hostOnly, before>>

vars == <<nodeVars, hostVars>>

\* history where no application state is followed
NoHistory == [past |-> <<>>, present |-> "none", future |-> <<>>]

----------------------------------------------------------------------------
(* Bounds of the model *)

\* the observation `run` stops counting here
MaxRun == 8

\* impulse-response buffers one reverb instance may generate
MaxBuffers == 4

----------------------------------------------------------------------------
(* JavaScript numbers *)

NaN == 2000000001
PosInf == 2000000000
NegInf == -2000000000

\* Number.isFinite(v)
IsFinite(v) == v \notin {NaN, PosInf, NegInf}

\* -a
Neg(a) == IF a = NaN THEN NaN
          ELSE IF a = PosInf THEN NegInf
          ELSE IF a = NegInf THEN PosInf
          ELSE 0 - a

\* a + b
Add(a, b) == IF a = NaN \/ b = NaN THEN NaN
             ELSE IF a = PosInf THEN (IF b = NegInf THEN NaN ELSE PosInf)
             ELSE IF a = NegInf THEN (IF b = PosInf THEN NaN ELSE NegInf)
             ELSE IF ~IsFinite(b) THEN b
             ELSE a + b

\* a - b
Sub(a, b) == Add(a, Neg(b))

\* a * (num / den) for a finite factor num/den, den > 0
Scale(a, num, den) ==
    IF a = NaN THEN NaN
    ELSE IF ~IsFinite(a)
         THEN (IF num = 0 THEN NaN ELSE IF num > 0 THEN a ELSE Neg(a))
    ELSE (a * num) \div den

\* a * b where a and b are both in thousandths
MulMilli(a, b) ==
    IF a = NaN \/ b = NaN THEN NaN
    ELSE IF ~IsFinite(a) THEN Scale(a, b, 1000)
    ELSE IF ~IsFinite(b) THEN Scale(b, a, 1000)
    ELSE (a * b) \div 1000

\* Math.max(a, b): NaN if either is NaN
MathMax(a, b) == IF a = NaN \/ b = NaN THEN NaN
                 ELSE IF a = PosInf \/ b = PosInf THEN PosInf
                 ELSE IF a = NegInf THEN b
                 ELSE IF b = NegInf THEN a
                 ELSE IF a >= b THEN a ELSE b

\* Math.min(a, b): NaN if either is NaN
MathMin(a, b) == IF a = NaN \/ b = NaN THEN NaN
                 ELSE IF a = NegInf \/ b = NegInf THEN NegInf
                 ELSE IF a = PosInf THEN b
                 ELSE IF b = PosInf THEN a
                 ELSE IF a <= b THEN a ELSE b

\* a > b as JavaScript evaluates it (false when either is NaN)
Gt(a, b) == /\ a # NaN
            /\ b # NaN
            /\ a # b
            /\ MathMax(a, b) = a

\* a >= b as JavaScript evaluates it
Ge(a, b) == a # NaN /\ b # NaN /\ MathMax(a, b) = a

\* a < b as JavaScript evaluates it
Lt(a, b) == Gt(b, a)

\* a !== b on numbers (NaN differs from everything, itself included)
StrictNe(a, b) == a = NaN \/ b = NaN \/ a # b

\* const safe = (v, def) => Number.isFinite(v) ? v : def
SafeUnguarded(v, def) == v

safe(v, def) == IF IsFinite(v) THEN v ELSE def

\* { ...this.params, ...p }
Merge(old, p) == [k \in DOMAIN old |-> IF k \in DOMAIN p THEN p[k] ELSE old[k]]

----------------------------------------------------------------------------
(* Calls on graph nodes *)

\* param.setTargetAtTime(value, now, tc)
Target(param, value, tc) ==
    [op |-> "setTargetAtTime", node |-> param, to |-> "", value |-> value, tc |-> tc]

\* param.setValueAtTime(value, now)
SetValue(param, value) ==
    [op |-> "setValueAtTime", node |-> param, to |-> "", value |-> value, tc |-> 0]

\* from.connect(dest)
ConnectCall(from, dest) ==
    [op |-> "connect", node |-> from, to |-> dest, value |-> 0, tc |-> 0]

\* node.disconnect()
DisconnectCall(node) ==
    [op |-> "disconnect", node |-> node, to |-> "", value |-> 0, tc |-> 0]

\* the calls of a sequence that the platform rejects with a TypeError: a
\* setTargetAtTime or setValueAtTime whose value or time constant is not finite
Rejected(calls) ==
    {i \in 1..Len(calls) :
        /\ calls[i].op \in {"setTargetAtTime", "setValueAtTime"}
        /\ (~IsFinite(calls[i].value) \/ ~IsFinite(calls[i].tc))}

\* a handler that makes these calls in order throws
Throws(calls) == Rejected(calls) # {}

\* the calls a handler gets to make: the TypeError of a rejected call ends it
Attempt(calls) ==
    IF Throws(calls)
    THEN SubSeq(calls, 1, CHOOSE i \in Rejected(calls) :
                              \A j \in Rejected(calls) : i <= j)
    ELSE calls

\* node.disconnect(): every connection leaving the node is removed
Disconnect(c, node) == {e \in c : e[1] # node}

\* the nodes a connection set mentions
NodesOf(c) == {e[1] : e \in c} \cup {e[2] : e \in c}

----------------------------------------------------------------------------
(* SyncDelayNode *)

\* DIVISION_FACTORS, in thousandths of a beat
DIVISION_FACTORS ==
    [d \in {"1/1", "1/2", "1/2D", "1/4", "1/4D", "1/4T", "1/8", "1/8D", "1/8T",
            "1/16", "1/16D", "1/16T", "1/32"} |->
        CASE d = "1/1" -> 4000
          [] d = "1/2" -> 2000
          [] d = "1/2D" -> 3000
          [] d = "1/4" -> 1000
          [] d = "1/4D" -> 1500
          [] d = "1/4T" -> 667
          [] d = "1/8" -> 500
          [] d = "1/8D" -> 750
          [] d = "1/8T" -> 333
          [] d = "1/16" -> 250
          [] d = "1/16D" -> 375
          [] d = "1/16T" -> 167
          [] d = "1/32" -> 125]

\* this.params as the constructor sets it
DelayDefaults(initialBpm) ==
    [mode |-> "SYNC", division |-> "1/4", timeMs |-> 250, feedback |-> 400,
     lowCut |-> 80, highCut |-> 12000, damping |-> 8000, mix |-> 300,
     stereoOffset |-> 0, width |-> 1000, modRate |-> 500, modDepth |-> 100,
     drive |-> 300, ducking |-> 0, pingPong |-> FALSE, bpm |-> initialBpm,
     isEnabled |-> TRUE]

\* the connections the constructor and setupChain make before updateRouting
DelaySetupChain ==
    { <<"modLFO", "modGainL">>, <<"modLFO", "modGainR">>,
      <<"modGainL", "delayNodeL.delayTime">>,
      <<"modGainR", "delayNodeR.delayTime">>,
      <<"input", "inputAnalyzer">>, <<"input", "duckingAnalyzer">>,
      <<"input", "dryGain">>, <<"dryGain", "output">>,
      <<"input", "delayNodeL">>,
      <<"delayNodeL", "lowCutFilter">>, <<"lowCutFilter", "highCutFilter">>,
      <<"highCutFilter", "dampingFilter">>, <<"dampingFilter", "tapeSaturator">>,
      <<"tapeSaturator", "feedbackGain">>,
      <<"delayNodeL", "panL">>, <<"delayNodeR", "panR">>,
      <<"panL", "widthSplitter">>, <<"panR", "widthSplitter">>,
      <<"widthSplitter", "midGain">>, <<"widthSplitter", "sideGain">>,
      <<"midGain", "widthMerger">>, <<"sideGain", "widthMerger">>,
      <<"widthMerger", "duckingGain">>, <<"duckingGain", "wetGain">>,
      <<"wetGain", "output">>, <<"output", "outputAnalyzer">> }

\* updateRouting(): the calls it makes, in order
DelayRoutingWrongTap(pingPong) ==
    <<DisconnectCall("feedbackGain"), DisconnectCall("delayNodeR")>> \o
    (IF pingPong
     THEN <<ConnectCall("tapeSaturator", "delayNodeR"),
            ConnectCall("delayNodeR", "lowCutFilter"),
            ConnectCall("delayNodeR", "panR")>>
     ELSE <<ConnectCall("feedbackGain", "delayNodeL")>>)

DelayRoutingFullRebuild(pingPong) ==
    <<DisconnectCall("input"), DisconnectCall("feedbackGain"),
      DisconnectCall("delayNodeR")>> \o
    (IF pingPong
     THEN <<ConnectCall("feedbackGain", "delayNodeR"),
            ConnectCall("delayNodeR", "lowCutFilter"),
            ConnectCall("delayNodeR", "panR")>>
     ELSE <<ConnectCall("feedbackGain", "delayNodeL")>>) \o
    <<ConnectCall("input", "inputAnalyzer"),
      ConnectCall("input", "duckingAnalyzer"), ConnectCall("input", "dryGain"),
      ConnectCall("input", "delayNodeL")>>

DelayRoutingCalls(pingPong) ==
    <<DisconnectCall("feedbackGain"), DisconnectCall("delayNodeR")>> \o
    (IF pingPong
     THEN <<ConnectCall("feedbackGain", "delayNodeR"),
            ConnectCall("delayNodeR", "lowCutFilter"),
            ConnectCall("delayNodeR", "panR")>>
     ELSE <<ConnectCall("feedbackGain", "delayNodeL")>>)

\* the connection set after one connect / disconnect call
ApplyCall(c, call) ==
    IF call.op = "connect" THEN c \cup {<<call.node, call.to>>}
    ELSE IF call.op = "disconnect" THEN Disconnect(c, call.node)
    ELSE c

\* the connection set after a sequence of calls
RECURSIVE ApplyCalls(_, _)
ApplyCalls(c, calls) ==
    IF calls = <<>> THEN c
    ELSE ApplyCalls(ApplyCall(c, Head(calls)), Tail(calls))

\* updateRouting(): the pan values it sets
DelayRoutingPan(pingPong) == IF pingPong THEN <<-850, 850>> ELSE <<-300, 300>>

\* applyParams(): the delay time in microseconds
DelaySeconds(pr) ==
    IF pr.mode = "SYNC"
    THEN LET bpm == IF pr.bpm = NaN \/ pr.bpm = 0 THEN 120 ELSE pr.bpm
             beatMs == IF IsFinite(bpm) THEN 60000 \div bpm ELSE 0
         IN  (beatMs * DIVISION_FACTORS[pr.division])
    ELSE Scale(pr.timeMs, 1000, 1)

\* applyParams(): the targets it schedules, in order
DelayApplyParams(pr) ==
    LET delaySeconds == DelaySeconds(pr)
        halfOffset == Scale(pr.stereoOffset, 500, 1)
        delayL == MathMax(1000, Sub(delaySeconds, halfOffset))
        delayR == MathMax(1000, Add(delaySeconds, halfOffset))
        modAmount == Scale(safe(pr.modDepth, 100), 5, 1)
        width == safe(pr.width, 1000)
        mix == safe(pr.mix, 300)
    IN  IF pr.isEnabled
        THEN << Target("delayNodeL.delayTime", delayL, 50000),
                Target("delayNodeR.delayTime", delayR, 50000),
                Target("feedbackGain.gain", safe(pr.feedback, 400), 20000),
                Target("lowCutFilter.frequency", safe(pr.lowCut, 80), 20000),
                Target("highCutFilter.frequency", safe(pr.highCut, 12000), 20000),
                Target("dampingFilter.frequency", safe(pr.damping, 8000), 20000),
                Target("modLFO.frequency", safe(pr.modRate, 500), 20000),
                Target("modGainL.gain", modAmount, 20000),
                Target("modGainR.gain", Scale(modAmount, 11, 10), 20000),
                Target("midGain.gain", Sub(2000, width), 20000),
                Target("sideGain.gain", width, 20000),
                Target("dryGain.gain", Sub(1000, Scale(mix, 1, 2)), 20000),
                Target("wetGain.gain", mix, 20000) >>
        ELSE << Target("dryGain.gain", 1000, 20000),
                Target("wetGain.gain", 0, 20000) >>

\* updateParams(p)
SyncDelayNode_updateParamsApplyFirst(p) ==
    LET merged == Merge(params, p)
        reroute == "pingPong" \in DOMAIN p /\ p.pingPong # params.pingPong
        redrive == "drive" \in DOMAIN p /\ StrictNe(p.drive, params.drive)
        routing == IF reroute THEN DelayRoutingCalls(merged.pingPong) ELSE <<>>
    IN  /\ params' = merged
        /\ conn' = ApplyCalls(conn, routing)
        /\ pan' = IF reroute THEN DelayRoutingPan(merged.pingPong) ELSE pan
        /\ curve' = IF redrive THEN merged.drive ELSE curve
        /\ log' = Attempt(DelayApplyParams(merged)) \o routing
        /\ last' = "updateParams"
        /\ UNCHANGED <<kind, timer, lfo, gate, worklet, rev, run>>

SyncDelayNode_updateParams(p) ==
    LET merged == Merge(params, p)
        reroute == "pingPong" \in DOMAIN p /\ p.pingPong # params.pingPong
        redrive == "drive" \in DOMAIN p /\ StrictNe(p.drive, params.drive)
        routing == IF reroute THEN DelayRoutingCalls(merged.pingPong) ELSE <<>>
    IN  /\ params' = merged
        /\ conn' = ApplyCalls(conn, routing)
        /\ pan' = IF reroute THEN DelayRoutingPan(merged.pingPong) ELSE pan
        /\ curve' = IF redrive THEN merged.drive ELSE curve
        /\ log' = routing \o Attempt(DelayApplyParams(merged))
        /\ last' = "updateParams"
        /\ UNCHANGED <<kind, timer, lfo, gate, worklet, rev, run>>

\* Math.min(1, max * 3) * ducking
DuckAmount(max, ducking) == MulMilli(MathMin(1000, Scale(max, 3, 1)), ducking)

\* the setInterval callback of startDuckingProcess, given the peak of duckingData
SyncDelayNode_duckingTick(max) ==
    /\ timer
    /\ log' = IF Gt(params.ducking, 0)
              THEN <<Target("duckingGain.gain",
                            Sub(1000, DuckAmount(max, params.ducking)), 15000)>>
              ELSE <<Target("duckingGain.gain", 1000, 20000)>>
    /\ last' = "tick"
    /\ UNCHANGED <<kind, params, conn, timer, lfo, curve, pan, gate, worklet, rev, run>>

\* destroy()
SyncDelayNode_destroy ==
    /\ timer' = FALSE
    /\ lfo' = "stopped"
    /\ log' = <<>>
    /\ last' = "destroy"
    /\ UNCHANGED <<kind, params, conn, curve, pan, gate, worklet, rev, run>>

----------------------------------------------------------------------------
(* DenoiserNode *)

\* the field initialisers of the detector state
GateInit ==
    [currentGain |-> 1000, targetGain |-> 1000, holdCounter |-> 0,
     inputLevel |-> -100, isGateOpen |-> TRUE]

\* this.params as the field initialiser sets it
DenoiserDefaults ==
    [threshold |-> -40, range |-> -40, attack |-> 5000, hold |-> 50,
     release |-> 150000, scFreq |-> 1000, flip |-> FALSE, isEnabled |-> TRUE]

\* setupChain()
DenoiserSetupChain ==
    { <<"input", "gainNode">>, <<"gainNode", "output">>,
      <<"input", "sideChainFilter">>, <<"sideChainFilter", "analyzer">> }

\* Math.pow(10, range / 20), in thousandths, for the range values of the model
RangeLinear(range) ==
    CASE range = NaN -> NaN
      [] range = PosInf -> PosInf
      [] range = NegInf -> 0
      [] range = 0 -> 1000
      [] range = -12 -> 251
      [] range = -20 -> 100
      [] range = -30 -> 32
      [] range = -40 -> 10
      [] range = -80 -> 0

\* 1 - Math.exp(-1 / (60 * timeConstant)), in millionths, for the attack and
\* release values of the model (microseconds)
Alpha(tc) ==
    CASE tc = NaN -> NaN
      [] tc = PosInf -> 0
      [] tc = NegInf -> 0
      [] tc = 0 -> 1000000
      [] tc = 100 -> 1000000
      [] tc = 1000 -> 1000000
      [] tc = 5000 -> 964326
      [] tc = 10000 -> 811124
      [] tc = 50000 -> 283469
      [] tc = 100000 -> 153518
      [] tc = 150000 -> 105161
      [] tc = 300000 -> 54041
      [] tc = 2000000 -> 8299

\* this.currentGain += (this.targetGain - this.currentGain) * alpha
ApproachAway(current, target, alpha) ==
    LET d == Sub(current, target)
    IN  IF alpha = NaN \/ d = NaN THEN NaN
        ELSE IF ~IsFinite(d) THEN Add(current, Scale(d, alpha, 1000000))
        ELSE Add(current, (d * alpha) \div 1000000)

Approach(current, target, alpha) ==
    LET d == Sub(target, current)
    IN  IF alpha = NaN \/ d = NaN THEN NaN
        ELSE IF ~IsFinite(d) THEN Add(current, Scale(d, alpha, 1000000))
        ELSE Add(current, (d * alpha) \div 1000000)

\* the gate logic of processGain: the detector state after a tick at level db
GateNoReset(g, pr, db) ==
    LET isAboveThreshold ==
            IF pr.flip THEN Lt(db, pr.threshold) ELSE Ge(db, pr.threshold)
    IN  IF isAboveThreshold
        THEN [g EXCEPT !.inputLevel = db, !.targetGain = 1000,
                       !.isGateOpen = TRUE]
        ELSE IF Gt(g.holdCounter, 0)
        THEN [g EXCEPT !.inputLevel = db, !.targetGain = 1000,
                       !.holdCounter = Sub(g.holdCounter, 10)]
        ELSE [g EXCEPT !.inputLevel = db,
                       !.targetGain = RangeLinear(pr.range),
                       !.isGateOpen = FALSE]

GateNoHold(g, pr, db) ==
    LET isAboveThreshold ==
            IF pr.flip THEN Lt(db, pr.threshold) ELSE Ge(db, pr.threshold)
    IN  IF isAboveThreshold
        THEN [g EXCEPT !.inputLevel = db, !.targetGain = 1000,
                       !.holdCounter = Scale(pr.hold, 6, 10),
                       !.isGateOpen = TRUE]
        ELSE [g EXCEPT !.inputLevel = db,
                       !.targetGain = RangeLinear(pr.range),
                       !.isGateOpen = FALSE]

GateLogic(g, pr, db) ==
    LET isAboveThreshold ==
            IF pr.flip THEN Lt(db, pr.threshold) ELSE Ge(db, pr.threshold)
    IN  IF isAboveThreshold
        THEN [g EXCEPT !.inputLevel = db, !.targetGain = 1000,
                       !.holdCounter = Scale(pr.hold, 6, 10),
                       !.isGateOpen = TRUE]
        ELSE IF Gt(g.holdCounter, 0)
        THEN [g EXCEPT !.inputLevel = db, !.targetGain = 1000,
                       !.holdCounter = Sub(g.holdCounter, 10)]
        ELSE [g EXCEPT !.inputLevel = db,
                       !.targetGain = RangeLinear(pr.range),
                       !.isGateOpen = FALSE]

\* processGain(): the smoothing time constant
TimeConstant(g, pr) ==
    IF Gt(g.targetGain, g.currentGain) THEN pr.attack ELSE pr.release

\* processGain(), the setInterval callback, given the level db of analyzerData
DenoiserNode_processGain(db) ==
    /\ timer
    /\ IF ~params.isEnabled
       THEN /\ log' = <<Target("gainNode.gain", 1000, 10000)>>
            /\ gate' = [gate EXCEPT !.currentGain = 1000]
            /\ run' = run
       ELSE LET g == GateLogic(gate, params, db)
                tc == TimeConstant(g, params)
                above == IF params.flip THEN Lt(db, params.threshold)
                         ELSE Ge(db, params.threshold)
            IN  /\ log' = <<Target("gainNode.gain", g.targetGain, tc)>>
                /\ gate' = IF Throws(log') THEN g
                           ELSE [g EXCEPT !.currentGain =
                                   Approach(g.currentGain, g.targetGain, Alpha(tc))]
                /\ run' = IF above THEN 0
                          ELSE IF run < 0 THEN run
                          ELSE IF run < MaxRun THEN run + 1 ELSE run
    /\ last' = "tick"
    /\ UNCHANGED <<kind, params, conn, timer, lfo, curve, pan, worklet, rev>>

\* updateParams(p)
DenoiserNode_updateParams(p) ==
    /\ params' = Merge(params, p)
    /\ log' = <<Target("sideChainFilter.frequency", params'.scFreq, 10000)>>
    /\ last' = "updateParams"
    /\ UNCHANGED <<kind, conn, timer, lfo, curve, pan, gate, worklet, rev, run>>

\* dispose()
DenoiserNode_dispose ==
    /\ timer' = FALSE
    /\ log' = <<DisconnectCall("input"), DisconnectCall("gainNode"),
                DisconnectCall("sideChainFilter")>>
    /\ conn' = ApplyCalls(conn, log')
    /\ last' = "destroy"
    /\ UNCHANGED <<kind, params, lfo, curve, pan, gate, worklet, rev, run>>

----------------------------------------------------------------------------
(* CompressorNode *)

\* this.params as the field initialiser sets it
CompressorDefaults ==
    [threshold |-> -18, ratio |-> 4, knee |-> 12, attack |-> 3000,
     release |-> 250000, makeupGain |-> 1000, mix |-> 1000, scHpFreq |-> 80,
     lookahead |-> 0, autoMakeup |-> FALSE, mode |-> "CLEAN", isEnabled |-> TRUE]

\* the connections the constructor makes
CompressorChain ==
    { <<"input", "inputAnalyzer">>, <<"input", "dryGain">>,
      <<"input", "scHighpass">>, <<"scHighpass", "lookaheadDelay">>,
      <<"lookaheadDelay", "compressor">>, <<"compressor", "saturationNode">>,
      <<"saturationNode", "makeupGainNode">>, <<"makeupGainNode", "wetGain">>,
      <<"dryGain", "output">>, <<"wetGain", "output">>,
      <<"output", "outputAnalyzer">> }

\* calculateAutoMakeup(): 10 ^ (|threshold| * (1 - 1/ratio) / 40), in
\* thousandths, for the threshold (dB) and ratio values of the model
calculateAutoMakeup(pr) ==
    IF pr.threshold = NaN \/ pr.ratio = NaN THEN NaN
    ELSE IF pr.ratio = 1 THEN (IF IsFinite(pr.threshold) THEN 1000 ELSE NaN)
    ELSE IF ~IsFinite(pr.threshold) THEN PosInf
    ELSE CASE pr.threshold = -18 /\ pr.ratio = 4 -> 2175
           [] pr.threshold = -24 /\ pr.ratio = 4 -> 2818
           [] pr.threshold = 0 -> 1000

\* applyParams(): the targets it schedules, in order
CompressorApplyParams(pr) ==
    IF pr.isEnabled
    THEN LET makeup == IF pr.autoMakeup THEN calculateAutoMakeup(pr)
                       ELSE safe(pr.makeupGain, 1000)
             wet == safe(pr.mix, 1000)
         IN  << Target("compressor.threshold", safe(pr.threshold, -18), 10000),
                Target("compressor.ratio", safe(pr.ratio, 4), 10000),
                Target("compressor.knee", safe(pr.knee, 12), 10000),
                Target("compressor.attack", safe(pr.attack, 3000), 10000),
                Target("compressor.release", safe(pr.release, 250000), 10000),
                Target("makeupGainNode.gain", makeup, 10000),
                Target("scHighpass.frequency", safe(pr.scHpFreq, 80), 10000),
                Target("lookaheadDelay.delayTime", safe(pr.lookahead, 0), 10000),
                Target("wetGain.gain", wet, 10000),
                Target("dryGain.gain", Sub(1000, wet), 10000) >>
    ELSE << Target("compressor.threshold", 0, 10000),
            Target("compressor.ratio", 1, 10000),
            Target("makeupGainNode.gain", 1000, 10000),
            Target("wetGain.gain", 0, 10000),
            Target("dryGain.gain", 1000, 10000) >>

\* updateParams(p)
CompressorNode_updateParams(p) ==
    /\ params' = Merge(params, p)
    /\ curve' = IF "mode" \in DOMAIN p THEN params'.mode ELSE curve
    /\ log' = Attempt(CompressorApplyParams(params'))
    /\ last' = "updateParams"
    /\ UNCHANGED <<kind, conn, timer, lfo, pan, gate, worklet, rev, run>>

----------------------------------------------------------------------------
(* ReverbNode *)

\* this.params as the field initialiser sets it
ReverbDefaults ==
    [decay |-> 2500, preDelay |-> 25000, size |-> 700, damping |-> 10000,
     mix |-> 300, lowCut |-> 100, highCut |-> 12000, width |-> 1000,
     modRate |-> 500, modDepth |-> 100, erLevel |-> 300, freeze |-> FALSE,
     ducking |-> 0, mode |-> "HALL", isEnabled |-> TRUE]

\* the connections the constructor and setupChain make
ReverbSetupChain ==
    { <<"modLFO", "modGain">>, <<"modGain", "modDelay.delayTime">>,
      <<"input", "inputAnalyzer">>, <<"input", "duckingAnalyzer">>,
      <<"input", "dryGain">>, <<"dryGain", "output">>,
      <<"input", "inputFilter">>,
      <<"inputFilter", "preDelayNode">>, <<"preDelayNode", "modDelay">>,
      <<"modDelay", "convolver">>, <<"convolver", "dampingFilter">>,
      <<"dampingFilter", "lowCutFilter">>, <<"lowCutFilter", "highCutFilter">>,
      <<"highCutFilter", "splitter">>, <<"erMix", "splitter">>,
      <<"splitter", "midGain">>, <<"splitter", "sideGain">>,
      <<"midGain", "merger">>, <<"sideGain", "merger">>,
      <<"merger", "duckingGain">>, <<"duckingGain", "wetGain">>,
      <<"wetGain", "output">>, <<"output", "outputAnalyzer">> }
    \cup { <<"inputFilter", "erDelay0">>, <<"erDelay0", "erGain0">>,
           <<"erGain0", "erMix">>,
           <<"inputFilter", "erDelay1">>, <<"erDelay1", "erGain1">>,
           <<"erGain1", "erMix">>,
           <<"inputFilter", "erDelay2">>, <<"erDelay2", "erGain2">>,
           <<"erGain2", "erMix">>,
           <<"inputFilter", "erDelay3">>, <<"erDelay3", "erGain3">>,
           <<"erGain3", "erMix">> }

\* no buffer (null)
NoBuffer == [id |-> 0, kind |-> "null", decay |-> 0, size |-> 0, mode |-> ""]

\* the observation `before` while freeze has never been switched on
NoBefore == [buffer |-> NoBuffer, decay |-> 0, size |-> 0, mode |-> ""]

\* rev for the effect kinds that are no reverb
NoReverb ==
    [buffer |-> NoBuffer, freezeBuffer |-> NoBuffer, isFrozen |-> FALSE,
     made |-> 0]

\* updateRouting(): the targets it schedules, in order
ReverbRouting(pr) ==
    IF pr.isEnabled
    THEN LET mix == safe(pr.mix, 300)
             width == safe(pr.width, 1000)
         IN  << Target("dryGain.gain", Sub(1000, Scale(mix, 1, 2)), 20000),
                Target("wetGain.gain", mix, 20000),
                Target("erMix.gain", safe(pr.erLevel, 300), 20000),
                Target("midGain.gain", Sub(2000, width), 20000),
                Target("sideGain.gain", width, 20000) >>
    ELSE << Target("dryGain.gain", 1000, 20000),
            Target("wetGain.gain", 0, 20000) >>

\* updateImpulseResponse() throws: createBuffer rejects a length that is not
\* a positive number (decay in ms)
IRLengthInvalid(pr) ==
    \/ pr.decay = NaN
    \/ pr.decay = NegInf
    \/ (IsFinite(pr.decay) /\ pr.decay <= 0)

\* updateImpulseResponse(): the reverb state after it (the buffer content is
\* random: every generated buffer is a new one, told apart by its id)
updateImpulseResponse(r, pr) ==
    IF r.isFrozen THEN r
    ELSE [r EXCEPT !.buffer = [id |-> r.made + 1, kind |-> "ir",
                               decay |-> pr.decay, size |-> pr.size,
                               mode |-> pr.mode],
                   !.made = r.made + 1]

\* activateFreeze()
activateFreeze(r) ==
    [r EXCEPT !.freezeBuffer = r.buffer,
              !.buffer = [id |-> r.made + 1, kind |-> "noise", decay |-> 0,
                          size |-> 0, mode |-> ""],
              !.made = r.made + 1,
              !.isFrozen = TRUE]

\* deactivateFreeze()
deactivateRegenerates(r, pr) ==
    [r EXCEPT !.buffer = [id |-> r.made + 1, kind |-> "ir",
                          decay |-> pr.decay, size |-> pr.size,
                          mode |-> pr.mode],
              !.made = r.made + 1,
              !.isFrozen = FALSE]

deactivateFreeze(r, pr) ==
    IF r.freezeBuffer.kind # "null"
    THEN [r EXCEPT !.buffer = r.freezeBuffer, !.isFrozen = FALSE]
    ELSE [updateImpulseResponse(r, pr) EXCEPT !.isFrozen = FALSE]

\* updateParams(p): the targets it schedules before updateRouting()
ReverbTargets(pr) ==
    << Target("preDelayNode.delayTime", safe(pr.preDelay, 25000), 20000),
       Target("dampingFilter.frequency", safe(pr.damping, 10000), 20000),
       Target("lowCutFilter.frequency", safe(pr.lowCut, 100), 20000),
       Target("highCutFilter.frequency", safe(pr.highCut, 12000), 20000),
       Target("modLFO.frequency", safe(pr.modRate, 500), 20000),
       Target("modGain.gain", Scale(safe(pr.modDepth, 100), 10, 1), 20000) >>

\* updateParams(p): what "Regenerate IR if needed" and "Handle freeze toggle"
\* leave; an exception thrown by updateImpulseResponse ends the call there
ReverbBuffers(r, old, pr) ==
    LET changed == \/ StrictNe(pr.decay, old.decay)
                   \/ StrictNe(pr.size, old.size)
                   \/ pr.mode # old.mode
        regen == changed /\ ~pr.freeze
        r1 == IF regen THEN updateImpulseResponse(r, pr) ELSE r
    IN  IF regen /\ ~r.isFrozen /\ IRLengthInvalid(pr) THEN r
        ELSE IF pr.freeze /\ ~old.freeze THEN activateFreeze(r1)
        ELSE IF ~pr.freeze /\ old.freeze
             THEN (IF r1.freezeBuffer.kind = "null" /\ IRLengthInvalid(pr)
                   THEN r1 ELSE deactivateFreeze(r1, pr))
        ELSE r1

\* updateParams(p)
ReverbNode_updateParams(p) ==
    LET merged == Merge(params, p)
    IN  /\ rev' = ReverbBuffers(rev, params, merged)
        /\ rev'.made <= MaxBuffers
        /\ params' = merged
        /\ log' = Attempt(ReverbTargets(merged) \o ReverbRouting(merged))
        /\ last' = "updateParams"
        /\ UNCHANGED <<kind, conn, timer, lfo, curve, pan, gate, worklet, run>>

\* the setInterval callback of startDuckingProcess, given the peak of duckingData
ReverbNode_duckingTick(max) ==
    /\ timer
    /\ log' = IF Gt(params.ducking, 0)
              THEN <<Target("duckingGain.gain",
                            Sub(1000, DuckAmount(max, params.ducking)), 20000)>>
              ELSE <<Target("duckingGain.gain", 1000, 20000)>>
    /\ last' = "tick"
    /\ UNCHANGED <<kind, params, conn, timer, lfo, curve, pan, gate, worklet, rev, run>>

\* destroy()
ReverbNode_destroy ==
    /\ timer' = FALSE
    /\ lfo' = "stopped"
    /\ log' = <<>>
    /\ last' = "destroy"
    /\ UNCHANGED <<kind, params, conn, curve, pan, gate, worklet, rev, run>>

----------------------------------------------------------------------------
(* AutoTuneNode *)

\* SCALES of utils/constants, in the order of the worklet's scaleNames
SCALES ==
    <<"CHROMATIC", "MAJOR", "MINOR", "MINOR_HARMONIC", "PENTATONIC", "TRAP_DARK">>

\* SCALES.indexOf(scale)
IndexOf(seq, x) ==
    IF \E i \in 1..Len(seq) : seq[i] = x
    THEN (CHOOSE i \in 1..Len(seq) :
              seq[i] = x /\ \A j \in 1..(i - 1) : seq[j] # x) - 1
    ELSE -1

\* this.cachedParams as the field initialiser sets it
AutoTuneDefaults ==
    [speed |-> 100, humanize |-> 0, mix |-> 1000, rootKey |-> 0,
     scale |-> "CHROMATIC", isEnabled |-> TRUE]

\* applyParams(): the calls it makes on the worklet's parameters, in order
AutoTuneApplyParams(w, pr) ==
    IF w \notin {"ready", "stalled"} THEN <<>>
    ELSE LET scaleIdx == IndexOf(SCALES, pr.scale)
         IN  << SetValue("bypass", IF pr.isEnabled THEN 0 ELSE 1),
                Target("retuneSpeed", pr.speed, 50000),
                Target("amount", pr.mix, 50000),
                SetValue("rootKey", pr.rootKey),
                SetValue("scaleType", IF scaleIdx >= 0 THEN scaleIdx ELSE 0) >>

\* updateParams(p)
AutoTuneNode_updateParams(p) ==
    /\ params' = Merge(params, p)
    /\ log' = Attempt(AutoTuneApplyParams(worklet, params'))
    /\ last' = "updateParams"
    /\ UNCHANGED <<kind, conn, timer, lfo, curve, pan, gate, worklet, rev, run>>

\* init() gets past its await: the worklet is created and inserted, then
\* applyParams() runs; resolveReady() is reached unless applyParams throws
AutoTuneNode_initDoneDefaults ==
    /\ worklet = "loading"
    /\ conn' = (conn \ {<<"input", "output">>})
                 \cup {<<"input", "worklet">>, <<"worklet", "output">>}
    /\ log' = Attempt(AutoTuneApplyParams("ready", AutoTuneDefaults))
    /\ worklet' = IF Throws(log') THEN "stalled" ELSE "ready"
    /\ last' = "init"
    /\ UNCHANGED <<kind, params, timer, lfo, curve, pan, gate, rev, run>>

AutoTuneNode_initDone ==
    /\ worklet = "loading"
    /\ conn' = (conn \ {<<"input", "output">>})
                 \cup {<<"input", "worklet">>, <<"worklet", "output">>}
    /\ log' = Attempt(AutoTuneApplyParams("ready", params))
    /\ worklet' = IF Throws(log') THEN "stalled" ELSE "ready"
    /\ last' = "init"
    /\ UNCHANGED <<kind, params, timer, lfo, curve, pan, gate, rev, run>>

\* init() fails: addModule rejects or the AudioWorkletNode constructor throws
AutoTuneNode_initFailed ==
    /\ worklet = "loading"
    /\ worklet' = "failed"
    /\ log' = <<>>
    /\ last' = "init"
    /\ UNCHANGED <<kind, params, conn, timer, lfo, curve, pan, gate, rev, run>>

\* worklet.onprocessorerror
AutoTuneNode_onprocessorerrorKeepsWorklet ==
    /\ worklet \in {"ready", "stalled"}
    /\ log' = <<ConnectCall("input", "output")>>
    /\ conn' = ApplyCalls(conn, log')
    /\ last' = "processorerror"
    /\ UNCHANGED <<kind, params, timer, lfo, curve, pan, gate, worklet, rev, run>>

AutoTuneNode_onprocessorerror ==
    /\ worklet \in {"ready", "stalled"}
    /\ log' = <<DisconnectCall("input"), DisconnectCall("worklet"),
                ConnectCall("input", "output")>>
    /\ conn' = ApplyCalls(conn, log')
    /\ last' = "processorerror"
    /\ UNCHANGED <<kind, params, timer, lfo, curve, pan, gate, worklet, rev, run>>

----------------------------------------------------------------------------
(* AudioEngine and the store: one track, its plugin list and its chain *)

\* the keys of PLUGIN_REGISTRY (plugins/registry)
PLUGIN_REGISTRY == {"DELAY", "REVERB", "COMPRESSOR", "DENOISER", "AUTOTUNE"}

\* the effect classes whose constructor registers a setInterval callback
HasDetector(type) == type \in {"DELAY", "REVERB", "DENOISER"}

\* the value of a property that is not there
Undefined == <<"undefined", "undefined">>

\* the elements of a sequence
Range(seq) == {seq[i] : i \in 1..Len(seq)}

\* Array.prototype.filter
RECURSIVE Filter(_, _)
Filter(seq, drop) ==
    IF seq = <<>> THEN <<>>
    ELSE (IF Head(seq).id = drop THEN <<>> ELSE <<Head(seq)>>)
         \o Filter(Tail(seq), drop)

\* createPluginNode without the test of node.input and node.output
createPluginNodeUnchecked(plugin, outcome) ==
    LET in == <<plugin.id, "input">>
        out == <<plugin.id, "output">>
        bin == <<plugin.id, "bypassInput">>
        bout == <<plugin.id, "bypassOutput">>
    IN  IF plugin.type = "VST3"
        THEN [entry |-> [type |-> plugin.type, outcome |-> "built",
                         input |-> in, output |-> out, node |-> "vst"],
              connects |-> {<<in, out>>}, starts |-> FALSE]
        ELSE IF plugin.type \in PLUGIN_REGISTRY
                /\ outcome \in {"built", "noInput", "noOutput"}
        THEN [entry |-> [type |-> plugin.type, outcome |-> outcome,
                         input |-> IF outcome = "noInput" THEN Undefined ELSE in,
                         output |-> IF outcome = "noOutput" THEN Undefined
                                    ELSE out,
                         node |-> "effect"],
              connects |-> IF outcome = "built" THEN {<<in, out>>} ELSE {},
              starts |-> HasDetector(plugin.type)]
        ELSE [entry |-> [type |-> plugin.type, outcome |-> outcome,
                         input |-> bin, output |-> bout, node |-> "bypass"],
              connects |-> {<<bin, bout>>},
              starts |-> /\ plugin.type \in PLUGIN_REGISTRY
                         /\ HasDetector(plugin.type)
                         /\ outcome = "updateThrows"]

\* createPluginNode(plugin, bpm) with this.ctx set.  outcome says how the
\* registry's factory fares: "built", "throws" (the constructor throws),
\* "updateThrows" (the first updateParams throws), "noInput", "noOutput"
\* (the node lacks the property).  entry is the value returned; connects are
\* the connections made inside it (the effect's own path from its input to
\* its output, or the bypass connection); starts tells whether an instance
\* with a detector timer was constructed.
createPluginNode(plugin, outcome) ==
    LET in == <<plugin.id, "input">>
        out == <<plugin.id, "output">>
        bin == <<plugin.id, "bypassInput">>
        bout == <<plugin.id, "bypassOutput">>
        constructed == /\ plugin.type \in PLUGIN_REGISTRY
                       /\ HasDetector(plugin.type)
                       /\ outcome # "throws"
    IN  IF plugin.type = "VST3"
        THEN [entry |-> [type |-> plugin.type, outcome |-> "built",
                         input |-> in, output |-> out, node |-> "vst"],
              connects |-> {<<in, out>>}, starts |-> FALSE]
        ELSE IF plugin.type \in PLUGIN_REGISTRY /\ outcome = "built"
        THEN [entry |-> [type |-> plugin.type, outcome |-> outcome,
                         input |-> in, output |-> out, node |-> "effect"],
              connects |-> {<<in, out>>}, starts |-> constructed]
        ELSE [entry |-> [type |-> plugin.type, outcome |-> outcome,
                         input |-> bin, output |-> bout, node |-> "bypass"],
              connects |-> {<<bin, bout>>}, starts |-> constructed]

\* the forEach of updateTrack over track.plugins from index i: st carries
\* pluginChain, the connections, head, the registered intervals and the last
\* value createPluginNode returned; oc gives the factory outcome per plugin
RECURSIVE ChainPlugins(_, _, _, _)
ChainPlugins(plugins, i, st, oc) ==
    IF i > Len(plugins) THEN st
    ELSE LET plugin == plugins[i]
             held == plugin.id \in DOMAIN st.chain
             made == createPluginNode(plugin, oc[plugin.id])
             pEntry == IF held THEN st.chain[plugin.id] ELSE made.entry
             chain1 == IF held THEN st.chain
                       ELSE [id \in DOMAIN st.chain \cup {plugin.id} |->
                               IF id = plugin.id THEN made.entry
                               ELSE st.chain[id]]
             conn1 == IF held THEN st.conn ELSE st.conn \cup made.connects
             st1 == [chain |-> chain1,
                     conn |-> IF plugin.isEnabled
                              THEN conn1 \cup {<<st.head, pEntry.input>>}
                              ELSE conn1,
                     head |-> IF plugin.isEnabled THEN pEntry.output
                              ELSE st.head,
                     intervals |-> IF ~held /\ made.starts
                                   THEN st.intervals \cup {plugin.id}
                                   ELSE st.intervals,
                     instance |-> IF held THEN st.instance ELSE made.entry]
         IN  ChainPlugins(plugins, i + 1, st1, oc)

\* the nodes of a track's DSP
DspInput == <<"dsp", "input">>
DspGain == <<"dsp", "gain">>
DspPanner == <<"dsp", "panner">>
DspAnalyzer == <<"dsp", "analyzer">>
DspOutput == <<"dsp", "output">>
MasterOutput == <<"master", "output">>

\* the connections of c that do not leave one of the nodes
Cut(c, nodes) == {e \in c : e[1] \notin nodes}

\* AudioEngine.updateTrack(track, allTracks) for track t with plugin list
\* plugins.  Plugins made by addPlugin have latency 0, so the record-mode
\* skip never applies.
AudioEngine_updateTrack(t, plugins, oc) ==
    IF ~ctx
    THEN UNCHANGED <<tracksDSP, conn, intervals, instance>>
    ELSE LET chain0 == IF t \in DOMAIN tracksDSP THEN tracksDSP[t] ELSE <<>>
             st == ChainPlugins(plugins, 1,
                       [chain |-> chain0, conn |-> Cut(conn, {DspInput}),
                        head |-> DspInput, intervals |-> intervals,
                        instance |-> instance], oc)
             currentPluginIds == {pl.id : pl \in Range(plugins)}
             gone == DOMAIN st.chain \ currentPluginIds
             chain2 == [id \in DOMAIN st.chain \ gone |-> st.chain[id]]
             conn2 == Cut(st.conn, {st.chain[id].input : id \in gone}
                                     \cup {st.chain[id].output : id \in gone})
             conn3 == conn2 \cup {<<st.head, DspGain>>, <<DspGain, DspPanner>>,
                                  <<DspPanner, DspAnalyzer>>,
                                  <<DspAnalyzer, DspOutput>>}
         IN  /\ tracksDSP' = [x \in DOMAIN tracksDSP \cup {t} |->
                                IF x = t THEN chain2 ELSE tracksDSP[x]]
             /\ conn' = Cut(conn3, {DspOutput})
                          \cup {<<DspOutput, MasterOutput>>}
             /\ intervals' = st.intervals
             /\ instance' = st.instance

\* AudioEngine.init()
AudioEngine_init ==
    /\ ~ctx
    /\ ctx' = TRUE
    /\ last' = "init"
    /\ log' = <<>>
    /\ UNCHANGED <<tracks, tracksDSP, conn, intervals, instance>>

\* store.addPlugin(trackId, type)
addPlugin(t, id, type, oc) ==
    /\ last' = "addPlugin"
    /\ log' = <<>>
    /\ UNCHANGED ctx
    /\ IF t \in DOMAIN tracks
       THEN LET newPlugin == [id |-> id, type |-> type, isEnabled |-> TRUE]
                plugins == Append(tracks[t], newPlugin)
            IN  /\ tracks' = [tracks EXCEPT ![t] = plugins]
                /\ AudioEngine_updateTrack(t, plugins, oc)
       ELSE UNCHANGED <<tracks, tracksDSP, conn, intervals, instance>>

\* store.removePlugin(trackId, pluginId)
removePlugin(t, id, oc) ==
    /\ last' = "removePlugin"
    /\ log' = <<>>
    /\ UNCHANGED ctx
    /\ IF t \in DOMAIN tracks
       THEN LET plugins == Filter(tracks[t], id)
            IN  /\ tracks' = [tracks EXCEPT ![t] = plugins]
                /\ AudioEngine_updateTrack(t, plugins, oc)
       ELSE UNCHANGED <<tracks, tracksDSP, conn, intervals, instance>>

\* store.updateTrack(track), the caller's track being the stored one with
\* the isEnabled flag of plugin id inverted
updateTrack(t, id, oc) ==
    /\ last' = "updateTrack"
    /\ log' = <<>>
    /\ UNCHANGED ctx
    /\ IF t \in DOMAIN tracks
       THEN LET plugins == [i \in 1..Len(tracks[t]) |->
                              IF tracks[t][i].id = id
                              THEN [tracks[t][i] EXCEPT
                                      !.isEnabled = ~tracks[t][i].isEnabled]
                              ELSE tracks[t][i]]
            IN  /\ tracks' = [tracks EXCEPT ![t] = plugins]
                /\ AudioEngine_updateTrack(t, plugins, oc)
       ELSE UNCHANGED <<tracks, tracksDSP, conn, intervals, instance>>

\* store.deleteTrack(id)
deleteTrack(t) ==
    /\ last' = "deleteTrack"
    /\ log' = <<>>
    /\ tracks' = [x \in DOMAIN tracks \ {t} |-> tracks[x]]
    /\ UNCHANGED <<ctx, tracksDSP, conn, intervals, instance>>

\* the setInterval callback of the instance made for plugin id runs
IntervalFires(id) ==
    /\ id \in intervals
    /\ last' = "tick"
    /\ log' = <<id>>
    /\ UNCHANGED <<ctx, tracks, tracksDSP, conn, intervals, instance>>

----------------------------------------------------------------------------
(* Construction *)

\* new SyncDelayNode(ctx, initialBpm)
SyncDelayNode_constructor(initialBpm) ==
    /\ params = DelayDefaults(initialBpm)
    /\ conn = ApplyCalls(DelaySetupChain, DelayRoutingCalls(FALSE))
    /\ pan = DelayRoutingPan(FALSE)
    /\ curve = 300
    /\ log = <<>>
    /\ timer = TRUE
    /\ lfo = "running"
    /\ gate = GateInit
    /\ worklet = "none"
    /\ rev = NoReverb
    /\ run = -1
    /\ last = "constructor"

\* new DenoiserNode(ctx)
DenoiserNode_constructor ==
    /\ params = DenoiserDefaults
    /\ conn = DenoiserSetupChain
    /\ pan = <<0, 0>>
    /\ curve = 0
    /\ log = <<>>
    /\ timer = TRUE
    /\ lfo = "none"
    /\ gate = GateInit
    /\ worklet = "none"
    /\ rev = NoReverb
    /\ run = -1
    /\ last = "constructor"

\* new CompressorNode(ctx)
CompressorNode_constructor ==
    /\ params = CompressorDefaults
    /\ conn = CompressorChain
    /\ pan = <<0, 0>>
    /\ curve = "CLEAN"
    /\ log = Attempt(CompressorApplyParams(CompressorDefaults))
    /\ timer = FALSE
    /\ lfo = "none"
    /\ gate = GateInit
    /\ worklet = "none"
    /\ rev = NoReverb
    /\ run = -1
    /\ last = "constructor"

\* new ReverbNode(ctx)
ReverbNode_constructor ==
    /\ params = ReverbDefaults
    /\ conn = ReverbSetupChain
    /\ pan = <<0, 0>>
    /\ curve = 0
    /\ log = ReverbRouting(ReverbDefaults)
    /\ timer = TRUE
    /\ lfo = "running"
    /\ gate = GateInit
    /\ worklet = "none"
    /\ rev = updateImpulseResponse(NoReverb, ReverbDefaults)
    /\ run = -1
    /\ last = "constructor"

\* new AutoTuneNode(ctx), up to the first await of init()
AutoTuneNode_constructor ==
    /\ params = AutoTuneDefaults
    /\ conn = {<<"input", "output">>}
    /\ pan = <<0, 0>>
    /\ curve = 0
    /\ log = <<>>
    /\ timer = FALSE
    /\ lfo = "none"
    /\ gate = GateInit
    /\ worklet = "loading"
    /\ rev = NoReverb
    /\ run = -1
    /\ last = "constructor"

----------------------------------------------------------------------------
(* Inputs *)

\* partial parameter sets given to SyncDelayNode.updateParams
DelayUpdates ==
    {[feedback |-> v] : v \in {0, 700, 950, NaN, PosInf}}
    \cup {[mix |-> v] : v \in {300, NaN}}
    \cup {[stereoOffset |-> v] : v \in {0, NaN}}
    \cup {[timeMs |-> v] : v \in {250, NaN}}
    \cup {[mode |-> v] : v \in {"SYNC", "FREE"}}
    \cup {[ducking |-> v] : v \in {0, 350, PosInf}}
    \cup {[drive |-> v] : v \in {300, 800}}
    \cup {[pingPong |-> v] : v \in BOOLEAN}
    \cup {[isEnabled |-> v] : v \in BOOLEAN}
    \cup {[pingPong |-> TRUE, feedback |-> 450, drive |-> 300]}

\* peaks of the ducking analyser's window, in thousandths of full scale
Peaks == {0, 100, 1000}

\* partial parameter sets given to DenoiserNode.updateParams
DenoiserUpdates ==
    {[threshold |-> v] : v \in {-40, NaN}}
    \cup {[range |-> v] : v \in {-40, NaN}}
    \cup {[hold |-> v] : v \in {50, 20}}
    \cup {[scFreq |-> v] : v \in {1000, NaN}}
    \cup {[flip |-> v] : v \in BOOLEAN}
    \cup {[isEnabled |-> v] : v \in BOOLEAN}

\* partial parameter sets within the documented ranges of DenoiserParams
DenoiserRangeUpdates ==
    {[threshold |-> v] : v \in {-30}}
    \cup {[range |-> v] : v \in {-20, 0}}
    \cup {[hold |-> v] : v \in {0, 20}}
    \cup {[attack |-> v] : v \in {100000}}
    \cup {[release |-> v] : v \in {10000}}
    \cup {[flip |-> v] : v \in {TRUE}}
    \cup {[isEnabled |-> v] : v \in {FALSE}}

\* detected levels in dB
Levels == {-50, -35, -10}

\* partial parameter sets given to CompressorNode.updateParams
CompressorUpdates ==
    {[threshold |-> v] : v \in {-18, -24, NaN, NegInf}}
    \cup {[ratio |-> v] : v \in {4, 1, NaN}}
    \cup {[makeupGain |-> v] : v \in {1000, 2000, NaN}}
    \cup {[mix |-> v] : v \in {1000, 500, PosInf}}
    \cup {[autoMakeup |-> v] : v \in BOOLEAN}
    \cup {[mode |-> v] : v \in {"CLEAN", "VCA"}}
    \cup {[isEnabled |-> v] : v \in BOOLEAN}

\* partial parameter sets given to ReverbNode.updateParams
ReverbUpdates ==
    {[decay |-> v] : v \in {2500, 5000, NaN}}
    \cup {[size |-> v] : v \in {700, 300}}
    \cup {[mode |-> v] : v \in {"HALL", "ROOM"}}
    \cup {[mix |-> v] : v \in {300, 500, NaN}}
    \cup {[ducking |-> v] : v \in {0, 350, PosInf}}
    \cup {[freeze |-> v] : v \in BOOLEAN}
    \cup {[isEnabled |-> v] : v \in BOOLEAN}
    \cup {[freeze |-> FALSE, decay |-> 5000]}

\* partial parameter sets given to AutoTuneNode.updateParams
AutoTuneUpdates ==
    {[speed |-> v] : v \in {100, 300}}
    \cup {[mix |-> v] : v \in {1000, 500}}
    \cup {[rootKey |-> v] : v \in {0, 7}}
    \cup {[scale |-> v] : v \in {"CHROMATIC", "MAJOR"}}
    \cup {[isEnabled |-> v] : v \in BOOLEAN}

\* the track of the engine model
TrackIds == {"t1"}

\* the ids generateId('pl') gives to the plugins of a behaviour
PluginIds == {"p1", "p2"}

\* plugin types given to addPlugin; "ECHO" is no key of the registry
PluginTypes == {"DELAY", "AUTOTUNE", "VST3", "ECHO"}

\* how the factory of a registered plugin can fare
FactoryOutcomes == {"built", "throws", "updateThrows", "noInput", "noOutput"}

\* partial parameter sets that bear on the reverb's impulse response
ReverbBufferUpdates ==
    {[decay |-> v] : v \in {2500, 5000, NaN}}
    \cup {[size |-> v] : v \in {700, 300}}
    \cup {[mode |-> v] : v \in {"HALL", "ROOM"}}
    \cup {[freeze |-> v] : v \in BOOLEAN}
    \cup {[freeze |-> FALSE, decay |-> 5000], [freeze |-> TRUE, size |-> 300]}

----------------------------------------------------------------------------
(* Specifications *)

\* the instance is followed on its own: no engine, no editor, no caller
NoHost ==
    /\ ctx = FALSE
    /\ tracks = <<>>
    /\ tracksDSP = <<>>
    /\ intervals = {}
    /\ history = NoHistory
    /\ instance = "none"
    /\ editor = "closed"
    /\ copy = "none"
    /\ calc = "none"
    /\ before = NoBefore

DelayUpdate ==
    /\ kind = "DELAY"
    /\ \E p \in DelayUpdates : SyncDelayNode_updateParams(p)
    /\ UNCHANGED hostVars

DelayTick ==
    /\ kind = "DELAY"
    /\ \E max \in Peaks : SyncDelayNode_duckingTick(max)
    /\ UNCHANGED hostVars

DelayDestroy ==
    /\ kind = "DELAY"
    /\ SyncDelayNode_destroy
    /\ UNCHANGED hostVars

DenoiserUpdate ==
    /\ kind = "DENOISER"
    /\ \E p \in DenoiserUpdates : DenoiserNode_updateParams(p)
    /\ UNCHANGED hostVars

DenoiserConfigure ==
    /\ kind = "DENOISER"
    /\ last # "tick"
    /\ \E p \in DenoiserRangeUpdates : DenoiserNode_updateParams(p)
    /\ UNCHANGED hostVars

DenoiserTick ==
    /\ kind = "DENOISER"
    /\ \E db \in Levels : DenoiserNode_processGain(db)
    /\ UNCHANGED hostVars

DenoiserDispose ==
    /\ kind = "DENOISER"
    /\ DenoiserNode_dispose
    /\ UNCHANGED hostVars

CompressorUpdate ==
    /\ kind = "COMPRESSOR"
    /\ \E p \in CompressorUpdates : CompressorNode_updateParams(p)
    /\ UNCHANGED hostVars

ReverbUpdate ==
    /\ kind = "REVERB"
    /\ \E p \in ReverbUpdates : ReverbNode_updateParams(p)
    /\ before' = IF ~params.freeze /\ params'.freeze
                 THEN [buffer |-> rev.buffer, decay |-> params'.decay,
                       size |-> params'.size, mode |-> params'.mode]
                 ELSE before
    /\ UNCHANGED hostOnly

ReverbBufferUpdate ==
    /\ kind = "REVERB"
    /\ \E p \in ReverbBufferUpdates : ReverbNode_updateParams(p)
    /\ before' = IF ~params.freeze /\ params'.freeze
                 THEN [buffer |-> rev.buffer, decay |-> params'.decay,
                       size |-> params'.size, mode |-> params'.mode]
                 ELSE before
    /\ UNCHANGED hostOnly

ReverbTick ==
    /\ kind = "REVERB"
    /\ \E max \in Peaks : ReverbNode_duckingTick(max)
    /\ UNCHANGED hostVars

ReverbDestroy ==
    /\ kind = "REVERB"
    /\ ReverbNode_destroy
    /\ UNCHANGED hostVars

AutoTuneUpdate ==
    /\ kind = "AUTOTUNE"
    /\ \E p \in AutoTuneUpdates : AutoTuneNode_updateParams(p)
    /\ UNCHANGED hostVars

AutoTuneInitDone ==
    /\ kind = "AUTOTUNE"
    /\ AutoTuneNode_initDone
    /\ UNCHANGED hostVars

AutoTuneInitFailed ==
    /\ kind = "AUTOTUNE"
    /\ AutoTuneNode_initFailed
    /\ UNCHANGED hostVars

AutoTuneProcessorError ==
    /\ kind = "AUTOTUNE"
    /\ AutoTuneNode_onprocessorerror
    /\ UNCHANGED hostVars

\* no effect instance is followed: the node variables are not used, but for
\* conn, the connections of the track's DSP, last and log
NoNode ==
    /\ params = <<>>
    /\ conn = {}
    /\ log = <<>>
    /\ timer = FALSE
    /\ lfo = "none"
    /\ curve = 0
    /\ pan = <<0, 0>>
    /\ gate = GateInit
    /\ worklet = "none"
    /\ rev = NoReverb
    /\ run = -1
    /\ last = "constructor"

\* the plugin ids of the store's tracks
StorePluginIds ==
    UNION {{pl.id : pl \in Range(tracks[t])} : t \in DOMAIN tracks}

\* the plugin ids held in a pluginChain of the engine
HeldPluginIds == UNION {DOMAIN tracksDSP[t] : t \in DOMAIN tracksDSP}

\* the plugin ids generateId has given out so far, as far as the state shows
UsedIds ==
    StorePluginIds \cup HeldPluginIds \cup intervals
    \cup {e[1][1] : e \in conn} \cup {e[2][1] : e \in conn}

\* the variables the store and engine actions leave alone
engineFrame ==
    <<kind, params, timer, lfo, curve, pan, gate, worklet, rev, run, editor,
      copy, calc, history, before>>

EngineInit ==
    /\ kind = "ENGINE"
    /\ AudioEngine_init
    /\ UNCHANGED engineFrame

EngineAddPlugin ==
    /\ kind = "ENGINE"
    /\ \E t \in TrackIds, id \in PluginIds \ UsedIds, type \in PluginTypes,
          o \in FactoryOutcomes :
            addPlugin(t, id, type, [x \in PluginIds |-> o])
    /\ UNCHANGED engineFrame

EngineRemovePlugin ==
    /\ kind = "ENGINE"
    /\ \E t \in TrackIds, id \in StorePluginIds, o \in FactoryOutcomes :
            removePlugin(t, id, [x \in PluginIds |-> o])
    /\ UNCHANGED engineFrame

EngineTogglePlugin ==
    /\ kind = "ENGINE"
    /\ \E t \in TrackIds, id \in StorePluginIds, o \in FactoryOutcomes :
            updateTrack(t, id, [x \in PluginIds |-> o])
    /\ UNCHANGED engineFrame

EngineDeleteTrack ==
    /\ kind = "ENGINE"
    /\ \E t \in DOMAIN tracks : deleteTrack(t)
    /\ UNCHANGED engineFrame

EngineIntervalFires ==
    /\ kind = "ENGINE"
    /\ \E id \in PluginIds : IntervalFires(id)
    /\ UNCHANGED engineFrame

InitEngine ==
    /\ kind = "ENGINE"
    /\ NoNode
    /\ ctx = FALSE
    /\ tracks = [t \in TrackIds |-> <<>>]
    /\ tracksDSP = <<>>
    /\ intervals = {}
    /\ history = NoHistory
    /\ instance = "none"
    /\ editor = "closed"
    /\ copy = "none"
    /\ calc = "none"
    /\ before = NoBefore

NextEngine ==
    EngineInit \/ EngineAddPlugin \/ EngineRemovePlugin \/ EngineTogglePlugin
    \/ EngineDeleteTrack \/ EngineIntervalFires

\* the store and the engine, with one track
SpecEngine == InitEngine /\ [][NextEngine]_vars

InitDelay == kind = "DELAY" /\ SyncDelayNode_constructor(120) /\ NoHost

InitDenoiser == kind = "DENOISER" /\ DenoiserNode_constructor /\ NoHost

InitCompressor == kind = "COMPRESSOR" /\ CompressorNode_constructor /\ NoHost

InitReverb == kind = "REVERB" /\ ReverbNode_constructor /\ NoHost

InitAutoTune == kind = "AUTOTUNE" /\ AutoTuneNode_constructor /\ NoHost

NextDelay == DelayUpdate \/ DelayTick \/ DelayDestroy

NextDenoiser == DenoiserUpdate \/ DenoiserTick \/ DenoiserDispose

NextGate == DenoiserConfigure \/ DenoiserTick

NextCompressor == CompressorUpdate

NextReverb == ReverbUpdate \/ ReverbTick \/ ReverbDestroy

NextAutoTune ==
    AutoTuneUpdate \/ AutoTuneInitDone \/ AutoTuneInitFailed
    \/ AutoTuneProcessorError

\* one SyncDelayNode
SpecDelay == InitDelay /\ [][NextDelay]_vars

\* one DenoiserNode
SpecDenoiser == InitDenoiser /\ [][NextDenoiser]_vars

\* one DenoiserNode whose parameters are set, within their documented
\* ranges, before its detector first ticks, and fixed from then on
SpecGate == InitDenoiser /\ [][NextGate]_vars

\* one CompressorNode
SpecCompressor == InitCompressor /\ [][NextCompressor]_vars

\* one ReverbNode
SpecReverb == InitReverb /\ [][NextReverb]_vars

\* one ReverbNode, updated in decay, size, mode and freeze only
SpecReverbIR == InitReverb /\ [][ReverbBufferUpdate]_vars

\* one AutoTuneNode
SpecAutoTune == InitAutoTune /\ [][NextAutoTune]_vars

\* one effect instance of any kind
Init ==
    InitDelay \/ InitDenoiser \/ InitCompressor \/ InitReverb \/ InitAutoTune
    \/ InitEngine

Next ==
    NextDelay \/ NextDenoiser \/ NextCompressor \/ NextReverb \/ NextAutoTune
    \/ NextEngine

Spec == Init /\ [][Next]_vars

----------------------------------------------------------------------------
(* Properties *)

\* getParams()
getParams == params

\* the names of the numeric parameters of the instance's kind
NumericKeys ==
    CASE kind = "DELAY" ->
           {"timeMs", "feedback", "lowCut", "highCut", "damping", "mix",
            "stereoOffset", "width", "modRate", "modDepth", "drive", "ducking",
            "bpm"}
      [] kind = "REVERB" ->
           {"decay", "preDelay", "size", "damping", "mix", "lowCut", "highCut",
            "width", "modRate", "modDepth", "erLevel", "ducking"}
      [] kind = "COMPRESSOR" ->
           {"threshold", "ratio", "knee", "attack", "release", "makeupGain",
            "mix", "scHpFreq", "lookahead"}
      [] kind = "DENOISER" ->
           {"threshold", "range", "attack", "hold", "release", "scFreq"}
      [] kind = "AUTOTUNE" -> {"speed", "humanize", "mix", "rootKey"}

\* the calls of a sequence that schedule a value on a coefficient
Scheduled(calls) ==
    {calls[i] : i \in {j \in 1..Len(calls) :
                          calls[j].op \in {"setTargetAtTime", "setValueAtTime"}}}

\* the calls of a sequence on one coefficient
CallsOn(calls, param) == {c \in Scheduled(calls) : c.node = param}

\* C1: for the delay, reverb, compressor and denoiser nodes, a parameter that
\* is non-finite after updateParams has the value it had before the call: an
\* update never brings a non-finite value into getParams().
C1_NonFiniteKeepsPrior ==
    [][(kind \in {"DELAY", "REVERB", "COMPRESSOR", "DENOISER"}
        /\ last' = "updateParams")
       => \A k \in NumericKeys :
            ~IsFinite(getParams'[k]) => getParams'[k] = getParams[k]]_vars

\* C2: every value that updateParams of a delay, reverb, compressor or
\* denoiser node schedules on a coefficient of the signal graph is finite.
C2_ScheduledTargetsFinite ==
    (kind \in {"DELAY", "REVERB", "COMPRESSOR", "DENOISER"}
     /\ last = "updateParams")
    => \A c \in Scheduled(log) : IsFinite(c.value)

\* the coefficient each guarded parameter drives directly
GuardedCoefficient ==
    CASE kind = "DELAY" ->
           { <<"feedback", "feedbackGain.gain">>,
             <<"lowCut", "lowCutFilter.frequency">>,
             <<"highCut", "highCutFilter.frequency">>,
             <<"damping", "dampingFilter.frequency">>,
             <<"modRate", "modLFO.frequency">>,
             <<"width", "sideGain.gain">>, <<"mix", "wetGain.gain">> }
      [] kind = "REVERB" ->
           { <<"preDelay", "preDelayNode.delayTime">>,
             <<"damping", "dampingFilter.frequency">>,
             <<"lowCut", "lowCutFilter.frequency">>,
             <<"highCut", "highCutFilter.frequency">>,
             <<"modRate", "modLFO.frequency">>,
             <<"erLevel", "erMix.gain">>,
             <<"width", "sideGain.gain">>, <<"mix", "wetGain.gain">> }
      [] kind = "COMPRESSOR" ->
           { <<"threshold", "compressor.threshold">>,
             <<"ratio", "compressor.ratio">>, <<"knee", "compressor.knee">>,
             <<"attack", "compressor.attack">>,
             <<"release", "compressor.release">>,
             <<"scHpFreq", "scHighpass.frequency">>,
             <<"lookahead", "lookaheadDelay.delayTime">>,
             <<"mix", "wetGain.gain">> }
      [] OTHER -> {}

\* C3: when an update gives a guarded parameter a non-finite value, the value
\* scheduled on the coefficient it drives is the finite value the parameter
\* held before the update.
C3_PreviousValueRetained ==
    [][(last' = "updateParams" /\ params'.isEnabled)
       => \A kc \in GuardedCoefficient :
            (IsFinite(params[kc[1]]) /\ ~IsFinite(params'[kc[1]]))
            => \A c \in CallsOn(log', kc[2]) : c.value = params[kc[1]]]_vars

\* C4: every target scheduled on the delay's feedback gain stage is a number
\* strictly below 1.0, the supplied feedback values being non-finite or
\* within [0, 0.95].
C4_FeedbackBelowUnity ==
    kind = "DELAY"
    => \A c \in CallsOn(log, "feedbackGain.gain") :
            IsFinite(c.value) /\ c.value < 1000

\* C4 witness: a non-finite feedback was supplied and a feedback target was
\* scheduled all the same.
C4_Witness ==
    /\ kind = "DELAY"
    /\ ~IsFinite(params.feedback)
    /\ CallsOn(log, "feedbackGain.gain") # {}

\* whether a connection set has a directed cycle: nodes without an incoming
\* connection are removed until none is left (no cycle) or none can be
\* removed (a cycle)
RECURSIVE HasCycle(_)
HasCycle(c) ==
    IF c = {} THEN FALSE
    ELSE LET roots == {e[1] : e \in c} \ {e[2] : e \in c}
         IN  IF roots = {} THEN TRUE
             ELSE HasCycle({e \in c : e[1] \notin roots})

\* the connections that do not touch a node
Without(c, node) == {e \in c : e[1] # node /\ e[2] # node}

\* C5: in every topology of the delay, every directed cycle of the
\* connection graph passes through feedbackGain: without that stage the
\* graph has no cycle.
C5_CyclesThroughFeedbackGain ==
    kind = "DELAY" => ~HasCycle(Without(conn, "feedbackGain"))

\* C5 witness: the ping-pong topology, reached by a toggle, has a feedback
\* cycle.
C5_Witness ==
    /\ kind = "DELAY"
    /\ params.pingPong
    /\ last = "updateParams"
    /\ HasCycle(conn)
    /\ <<"feedbackGain", "delayNodeR">> \in conn

\* params.hold * 60, in tenths of a tick
HoldTicks == Scale(params.hold, 6, 10)

\* C6: in an enabled denoiser with flip off and fixed parameters, on the
\* run-th consecutive tick below threshold after a tick at or above it, the
\* target gain is 1.0 and the gate open while run <= hold * 60; the target
\* is 10^(range/20) and the gate closed only when run > hold * 60, and always
\* from the first tick after the hold counter is exhausted.
C6_HoldThenClose ==
    (kind = "DENOISER" /\ last = "tick" /\ params.isEnabled /\ ~params.flip
     /\ run >= 1)
    => /\ (run * 10 <= HoldTicks)
            => (gate.targetGain = 1000 /\ gate.isGateOpen)
       /\ (~gate.isGateOpen) => (run * 10 > HoldTicks)
       /\ (run * 10 >= HoldTicks + 10)
            => (gate.targetGain = RangeLinear(params.range)
                /\ ~gate.isGateOpen)

\* C6 witness: hold 0.05 s (3 ticks): the fourth tick below threshold closes
\* the gate on the range gain.
C6_Witness ==
    /\ kind = "DENOISER"
    /\ last = "tick"
    /\ params.isEnabled
    /\ ~params.flip
    /\ params.hold = 50
    /\ params.range = -20
    /\ run = 4
    /\ ~gate.isGateOpen
    /\ gate.targetGain = 100

\* the comparison of the last detected level with the threshold
AboveThreshold ==
    IF params.flip THEN Lt(gate.inputLevel, params.threshold)
    ELSE Ge(gate.inputLevel, params.threshold)

\* C7: after a tick of an enabled denoiser whose level is at or above
\* threshold (below it when flip is set), the target gain is 1.0, the gate
\* is open and the hold counter has its full value, hold * 60.
C7_OpensAtOnce ==
    (kind = "DENOISER" /\ last = "tick" /\ params.isEnabled /\ AboveThreshold)
    => /\ gate.targetGain = 1000
       /\ gate.isGateOpen
       /\ gate.holdCounter = HoldTicks

\* C7 witness: a tick at or above threshold reopens a gate that had closed
\* (the tracked gain is still below unity) and refills the hold counter.
C7_Witness ==
    /\ kind = "DENOISER"
    /\ last = "tick"
    /\ params.isEnabled
    /\ AboveThreshold
    /\ run = 0
    /\ gate.currentGain < 1000
    /\ gate.isGateOpen
    /\ gate.holdCounter = 30

\* v lies between a and b
Between(v, a, b) == (a <= v /\ v <= b) \/ (b <= v /\ v <= a)

\* C8: with fixed parameters the tracked gain stays within
\* [10^(range/20), 1.0], and each enabled tick leaves it between its previous
\* value and the target.
C8_GainWithinFloorAndUnity ==
    [][kind = "DENOISER"
       => /\ gate'.currentGain <= 1000
          /\ gate'.currentGain >= RangeLinear(params'.range)
          /\ (last' = "tick" /\ params.isEnabled)
                => Between(gate'.currentGain, gate.currentGain,
                           gate'.targetGain)]_vars

\* C8 witness: the gate is closing and the tracked gain is strictly between
\* the floor and unity.
C8_Witness ==
    /\ kind = "DENOISER"
    /\ last = "tick"
    /\ params.isEnabled
    /\ ~gate.isGateOpen
    /\ gate.currentGain < 1000
    /\ gate.currentGain > RangeLinear(params.range)

\* the calls of a sequence that set a coefficient to a value by the smoothed
\* setter
Smoothed(calls, param, value) ==
    {c \in CallsOn(calls, param) : c.op = "setTargetAtTime" /\ c.value = value}

\* C9: once isEnabled is false, the next control action drives the effect to
\* unity gain or full bypass through setTargetAtTime: the denoiser's tick
\* targets gain 1; an update of the delay, reverb or compressor targets dry 1
\* and wet 0; an update of the auto-tune, or the end of its initialisation,
\* targets bypass 1.
C9_DisabledBypassSmoothed ==
    ~params.isEnabled
    => /\ (kind = "DENOISER" /\ last = "tick")
            => Smoothed(log, "gainNode.gain", 1000) # {}
       /\ (kind \in {"DELAY", "REVERB", "COMPRESSOR"} /\ last = "updateParams")
            => (Smoothed(log, "dryGain.gain", 1000) # {}
                /\ Smoothed(log, "wetGain.gain", 0) # {})
       /\ (kind = "AUTOTUNE" /\ worklet = "ready"
           /\ last \in {"updateParams", "init"})
            => Smoothed(log, "bypass", 1) # {}

\* C10: after dispose/destroy of a denoiser, delay or reverb (the detector
\* timer is cleared), the detector callback does not run and no connection
\* between the instance's nodes is left.
C10_DisposedStopsAndDisconnects ==
    (kind \in {"DENOISER", "DELAY", "REVERB"} /\ ~timer)
    => (last # "tick" /\ conn = {})

\* C11: a plugin that is no longer in the plugin list of a track of the
\* store (it was removed, or its track deleted) has no detector timer
\* registered and is not held in a plugin chain of the engine.
C11_RemovedInstanceDestroyed ==
    kind = "ENGINE" => (intervals \cup HeldPluginIds) \subseteq StorePluginIds

\* C12: when an update switches freeze off and decay, size and mode are what
\* they were when freeze was switched on, the convolver holds the buffer it
\* held before the freeze (the same buffer object, hence the same contents).
C12_UnfreezeRestoresBuffer ==
    [][(kind = "REVERB" /\ params.freeze /\ ~params'.freeze
        /\ before.buffer.kind # "null"
        /\ params'.decay = before.decay /\ params'.size = before.size
        /\ params'.mode = before.mode)
       => rev'.buffer = before.buffer]_vars

\* C12 witness: the reverb was frozen (the convolver held the noise buffer
\* in between) and is unfrozen again, holding the impulse response it held
\* before the freeze.
C12_Witness ==
    /\ kind = "REVERB"
    /\ before.buffer.kind # "null"
    /\ ~params.freeze
    /\ ~rev.isFrozen
    /\ rev.made >= 2
    /\ rev.buffer = before.buffer
    /\ rev.buffer.kind = "ir"
    /\ rev.freezeBuffer = rev.buffer

\* an update changes decay, size or mode
ChangesIR ==
    \/ params'.decay # params.decay
    \/ params'.size # params.size
    \/ params'.mode # params.mode

\* C13: an update that changes decay, size or mode of a reverb that is not
\* frozen and stays so puts a newly generated impulse response, made from
\* the new values, in the convolver; the same update on a reverb that is
\* frozen and stays so leaves the convolver's buffer as it is.
C13_RegeneratedUnlessFrozen ==
    [][(kind = "REVERB" /\ last' = "updateParams" /\ ChangesIR)
       => /\ (~rev.isFrozen /\ ~params.freeze /\ ~params'.freeze)
               => /\ rev'.buffer.kind = "ir"
                  /\ rev'.buffer.id > rev.made
                  /\ rev'.buffer.decay = params'.decay
                  /\ rev'.buffer.size = params'.size
                  /\ rev'.buffer.mode = params'.mode
          /\ (rev.isFrozen /\ params'.freeze)
               => rev'.buffer = rev.buffer]_vars

\* the entries createPluginNode returned that the engine holds
HeldEntries ==
    UNION {{tracksDSP[t][id] : id \in DOMAIN tracksDSP[t]} :
             t \in DOMAIN tracksDSP}

\* C14: with the audio context set, createPluginNode returns an entry for
\* every plugin (after the engine has processed a track, each of its plugins
\* has one), and every entry has an input and an output: those of an effect
\* whose factory built it, or else those of a pass-through whose input is
\* connected to its output, for an unknown type as for a factory that throws
\* or gives a node without input or output.
C14_EntryOrPassThrough ==
    kind = "ENGINE"
    => /\ (ctx /\ last \in {"addPlugin", "removePlugin", "updateTrack"})
            => StorePluginIds \subseteq HeldPluginIds
       /\ \A e \in HeldEntries :
            /\ e.input # Undefined
            /\ e.output # Undefined
            /\ e.node = "effect"
                 => (e.type \in PLUGIN_REGISTRY /\ e.outcome = "built")
            /\ (e.type \notin PLUGIN_REGISTRY \cup {"VST3"}
                 \/ e.outcome # "built") => e.node = "bypass"
            /\ e.node \in {"bypass", "vst"} => <<e.input, e.output>> \in conn

\* C14 witness: the factory of a registered type gave a node without input,
\* and the engine holds a pass-through for the plugin.
C14_Witness ==
    /\ kind = "ENGINE"
    /\ \E e \in HeldEntries :
          /\ e.type = "DELAY"
          /\ e.outcome = "noInput"
          /\ e.node = "bypass"
          /\ <<e.input, e.output>> \in conn

\* the nodes a connection set reaches from a set of nodes
RECURSIVE ReachFrom(_, _)
ReachFrom(c, from) ==
    LET next == from \cup {e[2] : e \in {x \in c : x[1] \in from}}
    IN  IF next = from THEN from ELSE ReachFrom(c, next)

\* a node lies on a path of the connection set from a to b
OnPath(c, node, a, b) ==
    node \in ReachFrom(c, {a}) /\ b \in ReachFrom(c, {node})

\* C15: after the auto-tune worklet has reported a processor error, the
\* node's input is connected directly to its output and the worklet is on no
\* path from the input to the output.
C15_FaultRewiresToBypass ==
    (kind = "AUTOTUNE" /\ last = "processorerror")
    => /\ <<"input", "output">> \in conn
       /\ ~OnPath(conn, "worklet", "input", "output")

\* C15 witness: the worklet had been inserted, reported an error, and the
\* node is wired input to output.
C15_Witness ==
    /\ kind = "AUTOTUNE"
    /\ last = "processorerror"
    /\ worklet = "ready"
    /\ conn = {<<"input", "output">>}

----------------------------------------------------------------------------
(* PluginEditor opened on the AutoTuneNode of plugin EditedPlugin *)

\* const maxAttempts = 30
maxAttempts == 30

\* how many times the retry button is followed
MaxRetries == 2

\* the plugin the editor is opened on, as the store holds it
EditedPlugin == [id |-> "p1", type |-> "AUTOTUNE", isEnabled |-> TRUE]

\* the component's state: nodeInstance, error and retryCount (useState),
\* attempts and timer (the effect's closure), awaiting (pollForNode is suspended at
\* `await node.ready`), open (the component is mounted)
EditorClosed ==
    [open |-> FALSE, nodeInstance |-> FALSE, error |-> "null", attempts |-> 0,
     timer |-> FALSE, awaiting |-> FALSE, retryCount |-> 0]

\* audioEngine.getPluginNodeInstance(trackId, pluginId)
getPluginNodeInstance(trackId, pluginId) ==
    IF trackId \in DOMAIN tracksDSP /\ pluginId \in DOMAIN tracksDSP[trackId]
    THEN (IF tracksDSP[trackId][pluginId].node = "bypass" THEN "null"
          ELSE tracksDSP[trackId][pluginId].type)
    ELSE "null"

\* one run of pollForNode, up to its await or its end
pollForNode(ed) ==
    LET node == getPluginNodeInstance("t1", EditedPlugin.id)
    IN  IF node # "null"
        THEN (IF node = "AUTOTUNE"
              THEN [ed EXCEPT !.awaiting = TRUE, !.timer = FALSE]
              ELSE [ed EXCEPT !.nodeInstance = TRUE, !.timer = FALSE])
        ELSE IF ed.attempts + 1 >= maxAttempts
        THEN [ed EXCEPT !.attempts = @ + 1, !.timer = FALSE,
                        !.error = "timeout"]
        ELSE [ed EXCEPT !.attempts = @ + 1, !.timer = TRUE]

\* what the editor renders
EditorView ==
    IF ~editor.open THEN "closed"
    ELSE IF editor.error # "null" THEN "error"
    ELSE IF ~editor.nodeInstance THEN "loading"
    ELSE "active"

editorFrame ==
    <<nodeVars, ctx, tracks, intervals, instance, copy, calc, history, before>>

\* the engine's updateTrack puts the node into the track's pluginChain
EditorNodeHeld ==
    /\ kind = "AUTOTUNE"
    /\ getPluginNodeInstance("t1", EditedPlugin.id) = "null"
    /\ tracksDSP' = [t \in {"t1"} |->
                       [id \in {EditedPlugin.id} |->
                          createPluginNode(EditedPlugin, "built").entry]]
    /\ UNCHANGED <<editorFrame, editor>>

\* the component mounts: the effect runs pollForNode()
EditorOpen ==
    /\ kind = "AUTOTUNE"
    /\ ~editor.open
    /\ editor' = pollForNode([EditorClosed EXCEPT !.open = TRUE])
    /\ UNCHANGED <<editorFrame, tracksDSP>>

\* setTimeout(pollForNode, 100) fires
EditorPollTimer ==
    /\ kind = "AUTOTUNE"
    /\ editor.open /\ editor.timer
    /\ editor' = pollForNode(editor)
    /\ UNCHANGED <<editorFrame, tracksDSP>>

\* node.ready is resolved: pollForNode goes on after its await
EditorReadyResolved ==
    /\ kind = "AUTOTUNE"
    /\ editor.open /\ editor.awaiting
    /\ worklet = "ready"
    /\ editor' = [editor EXCEPT !.awaiting = FALSE, !.nodeInstance = TRUE]
    /\ UNCHANGED <<editorFrame, tracksDSP>>

\* handleRetry(): the button of the error view; the effect runs again
EditorRetry ==
    /\ kind = "AUTOTUNE"
    /\ EditorView = "error"
    /\ editor.retryCount < MaxRetries
    /\ editor' = pollForNode([EditorClosed EXCEPT
                                !.open = TRUE,
                                !.retryCount = editor.retryCount + 1])
    /\ UNCHANGED <<editorFrame, tracksDSP>>

\* the node's own steps, once the engine has constructed it
EditorNodeInit ==
    /\ getPluginNodeInstance("t1", EditedPlugin.id) # "null"
    /\ (AutoTuneInitDone \/ AutoTuneInitFailed)

EditorNodeStep ==
    /\ getPluginNodeInstance("t1", EditedPlugin.id) # "null"
    /\ (AutoTuneUpdate \/ AutoTuneProcessorError)

InitEditor ==
    /\ kind = "AUTOTUNE"
    /\ AutoTuneNode_constructor
    /\ ctx = TRUE
    /\ tracks = [t \in {"t1"} |-> <<EditedPlugin>>]
    /\ tracksDSP = <<>>
    /\ intervals = {}
    /\ history = NoHistory
    /\ instance = "none"
    /\ editor = EditorClosed
    /\ copy = "none"
    /\ calc = "none"
    /\ before = NoBefore

NextEditor ==
    EditorNodeHeld \/ EditorOpen \/ EditorPollTimer \/ EditorReadyResolved
    \/ EditorRetry \/ EditorNodeInit \/ EditorNodeStep

\* the editor on one AutoTuneNode.  The timer callback and the continuation
\* of a settled promise are run by the event loop, and addModule settles.
SpecEditor ==
    /\ InitEditor
    /\ [][NextEditor]_vars
    /\ WF_vars(EditorPollTimer)
    /\ WF_vars(EditorReadyResolved)
    /\ WF_vars(EditorNodeInit)

\* C16: when the AutoTuneNode's init() has failed, an editor opened on it
\* eventually leaves the loading view and shows the error view with its
\* retry button.
C16_FailedInitShowsError ==
    (worklet = "failed" /\ EditorView = "loading") ~> (EditorView = "error")

----------------------------------------------------------------------------
(* Parameters and the objects getParams() returns *)

\* no object returned yet
NoCopy == [object |-> "none", fields |-> <<>>]

\* no call made yet
NoCall == [op |-> "none", arg |-> <<>>]

ObjectAlias(pr) == [object |-> "this.params", fields |-> pr]

\* { ...this.params }: a new object with the own properties of this.params
ObjectSpread(pr) == [object |-> "new", fields |-> pr]

\* the updates of a set whose numeric values are all finite
FiniteOnly(updates) ==
    {p \in updates : \A k \in DOMAIN p \cap NumericKeys : IsFinite(p[k])}

\* the properties of the returned object a caller assigns to
MutatedKeys == {"mix", "threshold", "isEnabled"}

\* the values a caller assigns to them
MutatedValues == [mix |-> {0, 123}, threshold |-> {-1}, isEnabled |-> {FALSE}]

paramsFrame ==
    <<ctx, tracks, tracksDSP, intervals, instance, editor, history, before>>

\* node.updateParams(p) with finite values; the object returned earlier is
\* followed until this call
ParamsUpdate ==
    /\ \/ /\ kind = "DELAY"
          /\ \E p \in FiniteOnly(DelayUpdates) :
                SyncDelayNode_updateParams(p)
                /\ calc' = [op |-> "updateParams", arg |-> p]
       \/ /\ kind = "DENOISER"
          /\ \E p \in FiniteOnly(DenoiserRangeUpdates) :
                DenoiserNode_updateParams(p)
                /\ calc' = [op |-> "updateParams", arg |-> p]
       \/ /\ kind = "COMPRESSOR"
          /\ \E p \in FiniteOnly(CompressorUpdates) :
                CompressorNode_updateParams(p)
                /\ calc' = [op |-> "updateParams", arg |-> p]
       \/ /\ kind = "REVERB"
          /\ \E p \in FiniteOnly(ReverbBufferUpdates) :
                ReverbNode_updateParams(p)
                /\ calc' = [op |-> "updateParams", arg |-> p]
    /\ copy' = NoCopy
    /\ UNCHANGED paramsFrame

\* const o = node.getParams()
ParamsGet ==
    /\ kind \in {"DELAY", "DENOISER", "COMPRESSOR", "REVERB"}
    /\ copy' = ObjectSpread(getParams)
    /\ calc' = [op |-> "getParams", arg |-> <<>>]
    /\ UNCHANGED <<nodeVars, paramsFrame>>

\* o[k] = v on the object getParams() returned
ParamsMutateCopy ==
    /\ copy.object # "none"
    /\ \E k \in MutatedKeys \cap DOMAIN params :
         \E v \in MutatedValues[k] :
            /\ copy.fields[k] # v
            /\ copy' = [copy EXCEPT !.fields[k] = v]
            /\ params' = IF copy.object = "this.params"
                          THEN [params EXCEPT ![k] = v]
                          ELSE params
            /\ calc' = [op |-> "mutateCopy", arg |-> k]
    /\ UNCHANGED <<kind, last, conn, log, timer, lfo, curve, pan, gate,
                   worklet, rev, run, paramsFrame>>

InitParams ==
    /\ \/ kind = "DELAY" /\ SyncDelayNode_constructor(120)
       \/ kind = "DENOISER" /\ DenoiserNode_constructor
       \/ kind = "COMPRESSOR" /\ CompressorNode_constructor
       \/ kind = "REVERB" /\ ReverbNode_constructor
    /\ ctx = FALSE
    /\ tracks = <<>>
    /\ tracksDSP = <<>>
    /\ intervals = {}
    /\ history = NoHistory
    /\ instance = "none"
    /\ editor = "closed"
    /\ copy = NoCopy
    /\ calc = NoCall
    /\ before = NoBefore

NextParams == ParamsUpdate \/ ParamsGet \/ ParamsMutateCopy

\* one effect node, its updateParams and getParams and a caller
SpecParams == InitParams /\ [][NextParams]_vars

\* the defaults the constructor of the instance's kind sets
DefaultsOfKind ==
    CASE kind = "DELAY" -> DelayDefaults(120)
      [] kind = "DENOISER" -> DenoiserDefaults
      [] kind = "COMPRESSOR" -> CompressorDefaults
      [] kind = "REVERB" -> ReverbDefaults

\* C17: getParams() starts as the construction defaults; every updateParams
\* with finite values overrides exactly the keys it names and keeps every
\* other key, and nothing else changes the parameters; getParams() returns
\* an object with the node's values whose modification by the caller leaves
\* the node's parameters as they were.
C17_MergedAndCopied ==
    /\ getParams = DefaultsOfKind
    /\ [][/\ DOMAIN getParams' = DOMAIN getParams
          /\ calc'.op = "updateParams"
               => \A k \in DOMAIN getParams :
                     getParams'[k] = IF k \in DOMAIN calc'.arg
                                     THEN calc'.arg[k]
                                     ELSE getParams[k]
          /\ calc'.op = "getParams"
               => (copy'.fields = getParams /\ getParams' = getParams)
          /\ calc'.op = "mutateCopy"
               => getParams' = getParams
         ]_vars

\* C17 witness: after updates that changed two keys of a delay, two of them
\* naming the same key, the caller has modified the object getParams()
\* returned.
C17_Witness ==
    /\ kind = "DELAY"
    /\ calc.op = "mutateCopy"
    /\ copy.fields.mix # params.mix
    /\ params.feedback = 700
    /\ params.pingPong
    /\ params.drive = 300

----------------------------------------------------------------------------
(* The waveshaper tables: values in units of 1 / CurveScale *)

\* the fixed-point unit of table inputs and outputs
CurveScale == 10000

\* const samples = 44100 (n_samples in the delay)
samples == 44100

\* e^-1 in units of 1 / CurveScale
ExpMinusOne == 3679

Abs(a) == IF a < 0 THEN -a ELSE a

\* Math.sign
Sign(a) == IF a < 0 THEN -1 ELSE IF a > 0 THEN 1 ELSE 0

\* the Taylor series of e^-f for 0 <= f < 1 from term k on; term is the
\* magnitude of term k - 1
RECURSIVE ExpSeries(_, _, _)
ExpSeries(f, k, term) ==
    IF k > 8 \/ term = 0 THEN 0
    ELSE LET t == (term * f) \div (CurveScale * k)
         IN  (IF k % 2 = 1 THEN -t ELSE t) + ExpSeries(f, k + 1, t)

\* e^-1 to the power n
RECURSIVE ExpMinusN(_)
ExpMinusN(n) ==
    IF n = 0 THEN CurveScale
    ELSE (ExpMinusN(n - 1) * ExpMinusOne) \div CurveScale

\* Math.exp(-z) for z >= 0
ExpNeg(z) ==
    LET n == z \div CurveScale
        f == z % CurveScale
    IN  (ExpMinusN(n) * (CurveScale + ExpSeries(f, 1, CurveScale)))
          \div CurveScale

\* Math.tanh(y) = sign(y) (1 - e^(-2|y|)) / (1 + e^(-2|y|))
Tanh(y) ==
    LET e == ExpNeg(2 * Abs(y))
    IN  Sign(y) * (((CurveScale - e) * CurveScale) \div (CurveScale + e))

\* x = (i * 2) / samples - 1
CurveInput(i) ==
    LET num == (2 * i - samples) * CurveScale
    IN  Sign(num) * (Abs(num) \div samples)

\* updateSaturationCurve(mode): curve[i]
updateSaturationCurve(mode, i) ==
    LET x == CurveInput(i)
    IN  CASE mode = "CLEAN" -> x
          [] mode = "VCA" -> Sign(x) * ((Abs(Tanh((x * 12) \div 10)) * 95) \div 100)
          [] mode = "OPTO" ->
               Sign(x) * ((((3 * Abs(x) * CurveScale)
                              \div (CurveScale + 2 * Abs(x))) * 9) \div 10)
          [] mode = "FET" ->
               Sign(x) * (((CurveScale - ExpNeg(Abs(x) * 2)) * 85) \div 100)

\* updateDriveCurve(drive): curve[i]; drive in thousandths
updateDriveCurve(drive, i) ==
    LET x == CurveInput(i)
        \* 1 + amount * 0.1 with amount = 10 + drive * 90
        gain == 2 * CurveScale + (9 * drive * CurveScale) \div 1000
    IN  IF drive < 100 THEN x
        ELSE Sign(x) * ((Abs(Tanh(Sign(x) * ((Abs(x) * gain) \div CurveScale)))
                           * 9) \div 10)

\* table indices followed
CurveIndices ==
    {0, 1, 4410, 11025, 16537, 22045, 22050, 22055, 33075, 39690, samples - 1}

\* drive values followed, in thousandths
Drives == {0, 50, 99, 100, 500, 1000}

\* CompressorParams.mode
SaturationModes == {"CLEAN", "VCA", "OPTO", "FET"}

curveFrame ==
    <<nodeVars, ctx, tracks, tracksDSP, intervals, instance, editor, copy,
      history, before>>

\* one entry of the table updateSaturationCurve(mode) writes
SaturationEntry ==
    /\ \E mode \in SaturationModes, i \in CurveIndices :
         calc' = [op |-> "updateSaturationCurve", arg |-> <<mode, i>>,
                  x |-> CurveInput(i), out |-> updateSaturationCurve(mode, i)]
    /\ UNCHANGED curveFrame

\* one entry of the table updateDriveCurve(drive) writes
DriveEntry ==
    /\ \E drive \in Drives, i \in CurveIndices :
         calc' = [op |-> "updateDriveCurve", arg |-> <<drive, i>>,
                  x |-> CurveInput(i), out |-> updateDriveCurve(drive, i)]
    /\ UNCHANGED curveFrame

InitCurve ==
    /\ kind = "CURVE"
    /\ NoNode
    /\ ctx = FALSE
    /\ tracks = <<>>
    /\ tracksDSP = <<>>
    /\ intervals = {}
    /\ history = NoHistory
    /\ instance = "none"
    /\ editor = "closed"
    /\ copy = "none"
    /\ calc = [op |-> "none", arg |-> <<>>, x |-> 0, out |-> 0]
    /\ before = NoBefore

NextCurve == SaturationEntry \/ DriveEntry

\* the entries of the saturation tables
SpecCurve == InitCurve /\ [][NextCurve]_vars

\* the ceiling of the saturation curves, 0.95
Ceiling == 9500

\* C18: every entry of every saturation table (compressor CLEAN, VCA, OPTO
\* and FET, delay drive curve for every drive) has a magnitude strictly
\* below the ceiling 0.95, and the entry for x = 0 is 0.
C18_BelowCeiling ==
    calc.op \in {"updateSaturationCurve", "updateDriveCurve"}
    => /\ Abs(calc.out) < Ceiling
       /\ calc.x = 0 => calc.out = 0

----------------------------------------------------------------------------
(* The length of the reverb's impulse response *)

\* Math.floor(num / den) for num >= 0 and den > 0
MathFloor(num, den) == num \div den

\* Math.round(num / den) for num >= 0 and den > 0
MathRound(num, den) == (2 * num + den) \div (2 * den)

\* updateImpulseResponse(): length, for a decay in milliseconds
IRLength(sampleRate, decay) ==
    LET duration == MathMin(decay, 15000)
    IN  MathFloor(sampleRate * duration, 1000)

\* ctx.sampleRate
SampleRates == {8000, 22050, 44100, 48000, 96000}

\* ReverbParams.decay, in milliseconds
Decays ==
    {100, 105, 127, 250, 333, 500, 999, 1000, 1234, 1500, 2001, 2500, 3333,
     5000, 7777, 9999, 12345, 14999, 15000, 20000}

\* the length of the buffer updateImpulseResponse() creates
IRLengthEntry ==
    /\ \E sampleRate \in SampleRates, decay \in Decays :
         calc' = [op |-> "updateImpulseResponse", arg |-> <<sampleRate, decay>>,
                  out |-> IRLength(sampleRate, decay)]
    /\ UNCHANGED curveFrame

InitIR ==
    /\ kind = "IR"
    /\ NoNode
    /\ ctx = FALSE
    /\ tracks = <<>>
    /\ tracksDSP = <<>>
    /\ intervals = {}
    /\ history = NoHistory
    /\ instance = "none"
    /\ editor = "closed"
    /\ copy = "none"
    /\ calc = [op |-> "none", arg |-> <<0, 0>>, out |-> 0]
    /\ before = NoBefore

NextIR == IRLengthEntry

\* the lengths of the impulse responses
SpecIR == InitIR /\ [][NextIR]_vars

\* C19: for every sample rate and every decay of 0.1 to 15 s, the impulse
\* response updateImpulseResponse generates is round(sampleRate *
\* min(decay, 15)) samples long.
C19_LengthIsRounded ==
    (calc.op = "updateImpulseResponse"
       /\ calc.arg[2] >= 100 /\ calc.arg[2] <= 15000)
    => calc.out = MathRound(calc.arg[1] * MathMin(calc.arg[2], 15000), 1000)

----------------------------------------------------------------------------
(* AudioAnalysisEngine.detectBPMAdvanced, from its autocorrelation on *)

\* how many times the two folding loops are followed
MaxFold == 3

\* const sampleRate = 11025
AnalysisRate == 11025

\* Math.floor(sampleRate * 0.01)
hopSize == MathFloor(AnalysisRate, 100)

\* Math.floor(60 / 200 * (sampleRate / hopSize))
minLag == MathFloor(60 * AnalysisRate, 200 * hopSize)

\* Math.floor(60 / 60 * (sampleRate / hopSize))
maxLag == MathFloor(60 * AnalysisRate, 60 * hopSize)

\* the autocorrelations followed: all zero (a silent signal), one peak, two
\* equal peaks, and a peak among NaN (no sample pair for a lag: 0 / 0)
AutocorrShapes == {"zero", "peak", "tie", "nan"}

\* autocorr, with its peak at index peak (1-based: lag minLag + peak - 1)
Autocorr(shape, peak) ==
    [k \in 1..(maxLag - minLag + 1) |->
        CASE shape = "zero" -> 0
          [] shape = "peak" -> IF k = peak THEN 900 ELSE 100
          [] shape = "tie" ->
               IF k \in {peak, maxLag - minLag + 1} THEN 900 ELSE 100
          [] shape = "nan" -> IF k = peak THEN 900 ELSE NaN]

\* the loop that finds the maximum: bestLag after entries k.. of autocorr
RECURSIVE PickBestLag(_, _, _, _)
PickBestLag(autocorr, k, maxCorr, bestLag) ==
    IF k > Len(autocorr) THEN bestLag
    ELSE IF Gt(autocorr[k], maxCorr)
    THEN PickBestLag(autocorr, k + 1, autocorr[k], minLag + (k - 1))
    ELSE PickBestLag(autocorr, k + 1, maxCorr, bestLag)

\* bpm < 70, for bpm = num / den
BpmTooLow(num, den) == num < 70 * den

BpmTooHighLenient(num, den) == num > 200 * den

\* bpm > 180
BpmTooHigh(num, den) == num > 180 * den

\* no call of detectBPMAdvanced yet
NoBpm ==
    [op |-> "none", shape |-> "", bestLag |-> 0, num |-> 0, den |-> 1,
     iter |-> 0, phase |-> "done", out |-> 0]

\* steps 4 and the conversion: bestLag, then bpm = 60 / (bestLag * hopSize
\* / sampleRate) as the fraction num / den
BpmPick ==
    /\ calc.phase = "done"
    /\ \E shape \in AutocorrShapes, peak \in 1..(maxLag - minLag + 1) :
         LET bestLag == PickBestLag(Autocorr(shape, peak), 1, 0, minLag)
         IN  calc' = [op |-> "detectBPMAdvanced", shape |-> shape,
                      bestLag |-> bestLag, num |-> 60 * AnalysisRate,
                      den |-> bestLag * hopSize, iter |-> 0, phase |-> "low",
                      out |-> 0]
    /\ UNCHANGED curveFrame

\* while (bpm < 70) bpm *= 2: one iteration
BpmDouble ==
    /\ calc.phase = "low"
    /\ BpmTooLow(calc.num, calc.den)
    /\ calc.iter < MaxFold
    /\ calc' = [calc EXCEPT !.num = 2 * @, !.iter = @ + 1]
    /\ UNCHANGED curveFrame

\* the first loop ends
BpmLowDone ==
    /\ calc.phase = "low"
    /\ ~BpmTooLow(calc.num, calc.den)
    /\ calc' = [calc EXCEPT !.phase = "high"]
    /\ UNCHANGED curveFrame

\* while (bpm > 180) bpm /= 2: one iteration
BpmHalve ==
    /\ calc.phase = "high"
    /\ BpmTooHigh(calc.num, calc.den)
    /\ calc.iter < MaxFold
    /\ calc' = [calc EXCEPT !.den = 2 * @, !.iter = @ + 1]
    /\ UNCHANGED curveFrame

\* the second loop ends: return Math.round(bpm)
BpmReturn ==
    /\ calc.phase = "high"
    /\ ~BpmTooHigh(calc.num, calc.den)
    /\ calc' = [calc EXCEPT !.phase = "done",
                            !.out = MathRound(calc.num, calc.den)]
    /\ UNCHANGED curveFrame

InitBpm ==
    /\ kind = "BPM"
    /\ NoNode
    /\ ctx = FALSE
    /\ tracks = <<>>
    /\ tracksDSP = <<>>
    /\ intervals = {}
    /\ history = NoHistory
    /\ instance = "none"
    /\ editor = "closed"
    /\ copy = "none"
    /\ calc = NoBpm
    /\ before = NoBefore

NextBpm == BpmPick \/ BpmDouble \/ BpmLowDone \/ BpmHalve \/ BpmReturn

\* calls of detectBPMAdvanced
SpecBpm == InitBpm /\ [][NextBpm]_vars

\* C20: whatever lag of the searched range has the maximum autocorrelation
\* (the first lag when the onset signal is all zero), the octave folding of
\* detectBPMAdvanced ends, after at most one doubling or halving, and the
\* value returned is an integer of 70..180.
C20_FoldedIntoRange ==
    calc.op = "detectBPMAdvanced"
    => /\ calc.bestLag \in minLag..maxLag
       /\ calc.iter <= 1
       /\ calc.phase = "done" => calc.out \in 70..180

\* C20 witness: a silent signal: the first lag, 30, is kept, 200 BPM is
\* halved once and 100 is returned.
C20_Witness ==
    /\ calc.op = "detectBPMAdvanced"
    /\ calc.shape = "zero"
    /\ calc.phase = "done"
    /\ calc.bestLag = minLag
    /\ calc.iter = 1
    /\ calc.out = 100

----------------------------------------------------------------------------
(* AudioAnalysisEngine.detectKeyFFT, from its chroma vector on *)

\* the Krumhansl-Schmuckler profiles, in hundredths, indexed from 0
PROFILE_MAJOR ==
    [i \in 0..11 |->
       <<635, 223, 348, 233, 438, 409, 252, 519, 239, 366, 229, 288>>[i + 1]]

PROFILE_MINOR ==
    [i \in 0..11 |->
       <<633, 268, 352, 538, 260, 353, 254, 475, 398, 269, 334, 317>>[i + 1]]

\* rotate(arr, n): res[i] = arr[(i + n) % arr.length]
rotate(arr, n) == [i \in 0..11 |-> arr[(i + n) % 12]]

\* the sum of f over 0..i
RECURSIVE SumTo(_, _)
SumTo(f, i) == IF i < 0 THEN 0 ELSE f[i] + SumTo(f, i - 1)

\* Math.sqrt, rounded down
Isqrt(n) == CHOOSE r \in 0..2000 : r * r <= n /\ n < (r + 1) * (r + 1)

\* correlate(v1, v2), in thousandths; the 0.0001 of the denominator is
\* below the unit of the products
correlate(v1, v2) ==
    LET sum == SumTo([i \in 0..11 |-> v1[i] * v2[i]], 11)
        norm1 == SumTo([i \in 0..11 |-> v1[i] * v1[i]], 11)
        norm2 == SumTo([i \in 0..11 |-> v2[i] * v2[i]], 11)
        den == Isqrt(norm1) * Isqrt(norm2)
    IN  IF den = 0 THEN 0 ELSE (sum * 1000) \div den

\* a chroma vector equal to a profile whose tonic weight sits on pitch
\* class r
Transposed(profile, r) == [i \in 0..11 |-> profile[(i + 12 - r) % 12]]

ProfileOf(scale) == IF scale = "MAJOR" THEN PROFILE_MAJOR ELSE PROFILE_MINOR

\* detectKeyFFT is given a chroma vector: bestCorr = -Infinity, bestRoot = 0,
\* bestScale = 'MAJOR'
KeyStart ==
    /\ calc.phase = "done"
    /\ \E scale \in {"MAJOR", "MINOR"}, r \in 0..11 :
         calc' = [op |-> "detectKeyFFT", scale |-> scale, tonic |-> r,
                  chroma |-> Transposed(ProfileOf(scale), r), root |-> 0,
                  bestCorr |-> NegInf, bestRoot |-> 0, bestScale |-> "MAJOR",
                  phase |-> "loop"]
    /\ UNCHANGED curveFrame

\* one iteration of the loop over root
KeyStep ==
    /\ calc.phase = "loop"
    /\ calc.root < 12
    /\ LET corrMaj == correlate(calc.chroma, rotate(PROFILE_MAJOR, calc.root))
           corrMin == correlate(calc.chroma, rotate(PROFILE_MINOR, calc.root))
           maj == corrMaj > calc.bestCorr
           corr1 == IF maj THEN corrMaj ELSE calc.bestCorr
           min == corrMin > corr1
       IN  calc' = [calc EXCEPT
                      !.bestCorr = IF min THEN corrMin ELSE corr1,
                      !.bestRoot = IF maj \/ min THEN calc.root ELSE @,
                      !.bestScale = IF min THEN "MINOR"
                                    ELSE IF maj THEN "MAJOR" ELSE @,
                      !.root = @ + 1]
    /\ UNCHANGED curveFrame

\* return { root: bestRoot, scale: bestScale }
KeyReturn ==
    /\ calc.phase = "loop"
    /\ calc.root = 12
    /\ calc' = [calc EXCEPT !.phase = "done"]
    /\ UNCHANGED curveFrame

InitKey ==
    /\ kind = "KEY"
    /\ NoNode
    /\ ctx = FALSE
    /\ tracks = <<>>
    /\ tracksDSP = <<>>
    /\ intervals = {}
    /\ history = NoHistory
    /\ instance = "none"
    /\ editor = "closed"
    /\ copy = "none"
    /\ calc = [op |-> "none", scale |-> "", tonic |-> 0,
               chroma |-> [i \in 0..11 |-> 0], root |-> 0, bestCorr |-> 0,
               bestRoot |-> 0, bestScale |-> "", phase |-> "done"]
    /\ before = NoBefore

NextKey == KeyStart \/ KeyStep \/ KeyReturn

\* calls of detectKeyFFT on transposed profiles
SpecKey == InitKey /\ [][NextKey]_vars

\* C21: a chroma vector equal to the major (minor) profile with its tonic
\* weight on pitch class r is detected as root r, MAJOR (MINOR), for every r.
C21_TransposedProfileDetected ==
    (calc.op = "detectKeyFFT" /\ calc.phase = "done")
    => (calc.bestRoot = calc.tonic /\ calc.bestScale = calc.scale)

----------------------------------------------------------------------------
(* AutoTuneProcessor.getNearestFreq, on the MIDI scale: a frequency f is   *)
(* the MIDI number 69 + 12 log2(f / 440), here in tenths of a semitone     *)

\* this.scales, in the order of this.scaleNames (indices from 0)
scales ==
    << <<0, 1, 2, 3, 4, 5, 6, 7, 8, 9, 10, 11>>,
       <<0, 2, 4, 5, 7, 9, 11>>,
       <<0, 2, 3, 5, 7, 8, 10>>,
       <<0, 2, 3, 5, 7, 8, 11>>,
       <<0, 3, 5, 7, 10>>,
       <<0, 1, 4, 5, 7, 8, 11>> >>

\* this.scales[this.scaleNames[scaleIdx] || 'CHROMATIC']
ScaleAt(scaleIdx) ==
    IF scaleIdx \in 0..5 THEN scales[scaleIdx + 1] ELSE scales[1]

\* the loop over currentScale from index i: targetRelative at its end
RECURSIVE NearestScaleNote(_, _, _, _, _)
NearestScaleNote(currentScale, relativeNote, i, minDiff, targetRelative) ==
    IF i > Len(currentScale) THEN targetRelative
    ELSE LET scaleNote == currentScale[i]
             d == Abs(relativeNote - scaleNote)
             diff == IF d > 6 THEN 12 - d ELSE d
         IN  IF diff < minDiff
             THEN NearestScaleNote(currentScale, relativeNote, i + 1, diff,
                                   scaleNote)
             ELSE NearestScaleNote(currentScale, relativeNote, i + 1, minDiff,
                                   targetRelative)

\* getNearestFreq(inputFreq, rootKey, scaleIdx): targetMidi, for the input
\* of MIDI number midi / 10 (> 0)
getNearestFreq(midi, rootKey, scaleIdx) ==
    LET note == MathRound(midi, 10)
        currentScale == ScaleAt(scaleIdx)
        noteInOctave == note % 12
        relativeNote == (noteInOctave - rootKey + 12) % 12
        targetRelative ==
            NearestScaleNote(currentScale, relativeNote, 1, PosInf,
                             relativeNote)
        dist == targetRelative - relativeNote
        octaveShift == IF dist < -6 THEN 1 ELSE IF dist > 6 THEN -1 ELSE 0
    IN  (MathFloor(midi, 120) + octaveShift) * 12 + targetRelative + rootKey

\* detected pitches, as MIDI numbers in tenths: C4 to B4, and pitches
\* between two notes
DetectedMidi ==
    {600, 610, 620, 630, 640, 650, 660, 670, 680, 690, 700, 710, 604, 716,
     596, 655}

\* one call of getNearestFreq
NearestFreqCall ==
    /\ \E midi \in DetectedMidi, rootKey \in 0..11, scaleIdx \in 0..5 :
         calc' = [op |-> "getNearestFreq", midi |-> midi, rootKey |-> rootKey,
                  scaleIdx |-> scaleIdx,
                  out |-> getNearestFreq(midi, rootKey, scaleIdx)]
    /\ UNCHANGED curveFrame

InitNearest ==
    /\ kind = "NEAREST"
    /\ NoNode
    /\ ctx = FALSE
    /\ tracks = <<>>
    /\ tracksDSP = <<>>
    /\ intervals = {}
    /\ history = NoHistory
    /\ instance = "none"
    /\ editor = "closed"
    /\ copy = "none"
    /\ calc = [op |-> "none", midi |-> 0, rootKey |-> 0, scaleIdx |-> 0,
               out |-> 0]
    /\ before = NoBefore

NextNearest == NearestFreqCall

\* calls of getNearestFreq
SpecNearest == InitNearest /\ [][NextNearest]_vars

\* C22: the target of getNearestFreq is a note of the selected scale
\* relative to rootKey and lies within 6 semitones of the MIDI note nearest
\* to the detected pitch.
C22_TargetInScaleAndNear ==
    calc.op = "getNearestFreq"
    => LET note == MathRound(calc.midi, 10)
           inScale == {n \in 0..11 :
                         \E i \in 1..Len(ScaleAt(calc.scaleIdx)) :
                            ScaleAt(calc.scaleIdx)[i] = n}
       IN  /\ ((calc.out - calc.rootKey) % 12) \in inScale
           /\ Abs(calc.out - note) <= 6

----------------------------------------------------------------------------
(* AutoTuneProcessor.process: the correction ratio, in thousandths *)

RatioUnclamped(r) == r

\* Math.max(0.5, Math.min(2.0, targetRatio))
ClampRatio(r) == MathMax(500, MathMin(2000, r))

\* targetRatio before the clamp, for frequencies in Hz
TargetRatio(lastDetectedFreq, targetFreq) ==
    IF lastDetectedFreq > 50 /\ targetFreq > 50
    THEN (targetFreq * 1000) \div lastDetectedFreq
    ELSE 1000

\* this.currentRatio after one block; retuneSpeed in thousandths
SmoothRatio(currentRatio, targetRatio, retuneSpeed) ==
    LET smoothing == 10 + retuneSpeed \div 10
    IN  (currentRatio * (1000 - smoothing) + targetRatio * smoothing)
          \div 1000

\* this.lastDetectedFreq, in Hz
DetectedFreqs == {0, 40, 100, 220, 440, 1000}

\* targetFreq, in Hz
TargetFreqs == {0, 40, 110, 220, 440, 466, 2500}

\* parameters.retuneSpeed[0], in thousandths
RetuneSpeeds == {0, 500, 1000}

\* process() on one block that is not bypassed
ProcessBlock ==
    /\ \E lastDetectedFreq \in DetectedFreqs, targetFreq \in TargetFreqs,
          retuneSpeed \in RetuneSpeeds :
         LET targetRatio ==
                 ClampRatio(TargetRatio(lastDetectedFreq, targetFreq))
         IN  calc' = [op |-> "process", targetRatio |-> targetRatio,
                      currentRatio |-> SmoothRatio(calc.currentRatio,
                                                   targetRatio, retuneSpeed)]
    /\ UNCHANGED curveFrame

InitRatio ==
    /\ kind = "RATIO"
    /\ NoNode
    /\ ctx = FALSE
    /\ tracks = <<>>
    /\ tracksDSP = <<>>
    /\ intervals = {}
    /\ history = NoHistory
    /\ instance = "none"
    /\ editor = "closed"
    /\ copy = "none"
    /\ calc = [op |-> "none", targetRatio |-> 1000, currentRatio |-> 1000]
    /\ before = NoBefore

NextRatio == ProcessBlock

\* the blocks one AutoTuneProcessor processes
SpecRatio == InitRatio /\ [][NextRatio]_vars

\* C23: after every processed block the smoothed correction ratio is
\* within [0.5, 2.0].
C23_RatioBounded ==
    calc.op = "process"
    => (calc.currentRatio >= 500 /\ calc.currentRatio <= 2000)

\* C23 witness: blocks whose target ratio was clamped to 2.0 have brought
\* the smoothed ratio close to it.
C23_Witness ==
    /\ calc.op = "process"
    /\ calc.targetRatio = 2000
    /\ calc.currentRatio > 1900

----------------------------------------------------------------------------
(* The order of the calls of one SyncDelayNode.updateParams *)

\* the positions of the log holding a connect or disconnect call
RoutingCallsAt == {i \in 1..Len(log) : log[i].op \in {"connect", "disconnect"}}

\* the positions of the log holding a scheduled coefficient target
TargetsAt ==
    {i \in 1..Len(log) : log[i].op \in {"setTargetAtTime", "setValueAtTime"}}

\* C24: in one updateParams call of the delay that changes pingPong, the
\* calls that switch the routing are those of the new pingPong value and
\* every one of them is made before any coefficient target is scheduled.
C24_RoutingBeforeTargets ==
    (kind = "DELAY" /\ last = "updateParams" /\ RoutingCallsAt # {})
    => /\ SubSeq(log, 1, Len(DelayRoutingCalls(params.pingPong)))
            = DelayRoutingCalls(params.pingPong)
       /\ \A i \in RoutingCallsAt : \A j \in TargetsAt : i < j

\* C24 witness: one call switched to ping-pong and changed feedback: the
\* routing calls are followed by the feedback target of the new value.
C24_Witness ==
    /\ kind = "DELAY"
    /\ last = "updateParams"
    /\ params.pingPong
    /\ RoutingCallsAt # {}
    /\ \E j \in TargetsAt :
          log[j].node = "feedbackGain.gain" /\ log[j].value = 450

----------------------------------------------------------------------------
(* The two routings of SyncDelayNode *)

\* the connections of the node with pingPong false, as the constructor
\* leaves them
DelayNormalTopology == ApplyCalls(DelaySetupChain, DelayRoutingCalls(FALSE))

\* the connections of the node with pingPong true
DelayPingPongTopology == ApplyCalls(DelaySetupChain, DelayRoutingCalls(TRUE))

\* the connect and disconnect calls of a sequence of calls
IsRoutingCall(call) == call.op \in {"connect", "disconnect"}

RoutingCallsOf(calls) == SelectSeq(calls, IsRoutingCall)

\* C25: a ping-pong toggle of the delay removes and adds only connections
\* that differ between the normal and the ping-pong topology: every
\* connection of both topologies is present before the switch, after each
\* connect or disconnect call of the switch, and after it.
C25_SharedConnectionsKept ==
    [][(kind = "DELAY" /\ last' = "updateParams"
          /\ params'.pingPong # params.pingPong)
       => LET shared == DelayNormalTopology \cap DelayPingPongTopology
              differ == (DelayNormalTopology \cup DelayPingPongTopology)
                          \ shared
              calls == RoutingCallsOf(log')
          IN  /\ calls # <<>>
              /\ \A k \in 0..Len(calls) :
                    shared \subseteq ApplyCalls(conn, SubSeq(calls, 1, k))
              /\ conn' = ApplyCalls(conn, calls)
              /\ (conn \ conn') \cup (conn' \ conn) \subseteq differ
      ]_vars

\* C25 witness: the delay has been switched to ping-pong: its connections
\* are the ping-pong topology, which differs from the normal one and shares
\* the dry path, the filter chain and the left panner with it.
C25_Witness ==
    /\ kind = "DELAY"
    /\ last = "updateParams"
    /\ params.pingPong
    /\ conn = DelayPingPongTopology
    /\ conn # DelayNormalTopology
    /\ {<<"input", "dryGain">>, <<"lowCutFilter", "highCutFilter">>,
        <<"delayNodeL", "panL">>} \subseteq conn \cap DelayNormalTopology
    /\ RoutingCallsOf(log) # <<>>

----------------------------------------------------------------------------
(* The two phases of AutoTuneNode *)

\* the value the log schedules last on a parameter of the worklet
LastScheduled(param) ==
    LET at == {i \in 1..Len(log) : log[i].node = param}
    IN  log[CHOOSE i \in at : \A j \in at : j <= i].value

\* C26: until init() completes the input of the AutoTuneNode is wired
\* straight to its output; when `ready` is resolved the worklet stands
\* between input and output, the direct connection is gone, and the values
\* applied are the cached ones: those of the latest updateParams calls made
\* before.
C26_ReadyAfterInsertAndApply ==
    kind = "AUTOTUNE"
    => /\ worklet \in {"loading", "failed"} => conn = {<<"input", "output">>}
       /\ (last = "init" /\ worklet = "ready")
            => /\ conn = {<<"input", "worklet">>, <<"worklet", "output">>}
               /\ LastScheduled("retuneSpeed") = params.speed
               /\ LastScheduled("amount") = params.mix
               /\ LastScheduled("rootKey") = params.rootKey
               /\ LastScheduled("bypass") = (IF params.isEnabled THEN 0 ELSE 1)
               /\ LastScheduled("scaleType") = IndexOf(SCALES, params.scale)

\* C26 witness: updateParams calls made before readiness changed speed and
\* scale; init() has completed and applied them.
C26_Witness ==
    /\ kind = "AUTOTUNE"
    /\ last = "init"
    /\ worklet = "ready"
    /\ params.speed = 300
    /\ params.scale = "MAJOR"
    /\ LastScheduled("retuneSpeed") = 300

----------------------------------------------------------------------------
(* The impulse response of a reverb that is not frozen *)

\* C27: whenever the reverb is not frozen (and its decay is one an impulse
\* response can be generated from), the impulse response the convolver
\* holds was generated from the current decay, size and mode.
C27_IRMatchesParams ==
    (kind = "REVERB" /\ ~rev.isFrozen /\ ~IRLengthInvalid(params))
    => /\ rev.buffer.kind = "ir"
       /\ rev.buffer.decay = params.decay
       /\ rev.buffer.size = params.size
       /\ rev.buffer.mode = params.mode

----------------------------------------------------------------------------
(* The signal path of a track *)

\* the plugins of track t the store holds enabled
EnabledPluginIds(t) == {pl.id : pl \in {x \in Range(tracks[t]) : x.isEnabled}}

\* the plugins with a node on a path from the track input to the track gain
PluginIdsOnPath ==
    {id \in PluginIds :
        \E n \in {<<id, "input">>, <<id, "bypassInput">>} :
            OnPath(conn, n, DspInput, DspGain)}

\* C28: after an updateTrack call of the engine, the plugins on a path from
\* the track input to the track gain are exactly the enabled plugins of the
\* track, and the track gain is fed by the end of that one chain only.
C28_PathThroughEnabledOnly ==
    (kind = "ENGINE" /\ ctx
       /\ last \in {"addPlugin", "removePlugin", "updateTrack"})
    => /\ PluginIdsOnPath = EnabledPluginIds("t1")
       /\ Cardinality({e \in conn : e[2] = DspGain}) = 1

----------------------------------------------------------------------------
(* The feedback routing of SyncDelayNode *)

\* the connections leaving feedbackGain and delayNodeR
FeedbackRouting == {e \in conn : e[1] \in {"feedbackGain", "delayNodeR"}}

\* C29: after any sequence of updateParams calls of the delay, the
\* connections leaving feedbackGain and delayNodeR depend on the current
\* pingPong flag alone: feedbackGain feeds delayNodeL when it is false;
\* feedbackGain feeds delayNodeR, which feeds the low-cut filter and the right
\* panner, when it is true. With the flag false again the whole connection
\* set is the one the constructor left.
C29_RoutingDeterminedByPingPong ==
    kind = "DELAY"
    => /\ FeedbackRouting =
            IF params.pingPong
            THEN {<<"feedbackGain", "delayNodeR">>,
                  <<"delayNodeR", "lowCutFilter">>, <<"delayNodeR", "panR">>}
            ELSE {<<"feedbackGain", "delayNodeL">>}
       /\ (~params.pingPong => conn = DelayNormalTopology)

\* C29 witness: an updateParams call has just switched ping-pong off again
\* (it ran updateRouting), and the feedback returns to the left delay line.
C29_Witness ==
    /\ kind = "DELAY"
    /\ last = "updateParams"
    /\ ~params.pingPong
    /\ RoutingCallsOf(log) # <<>>
    /\ FeedbackRouting = {<<"feedbackGain", "delayNodeL">>}

----------------------------------------------------------------------------
(* Transport and undo / redo: the App component and the store *)

\* history entries kept by useUndoRedo
MAX_HISTORY == 100

\* edits of one behaviour that push an entry on the past
MaxHistory == 3

\* the tempos the user sets
Bpms == {10, 120, 140}

\* initialState / createDefaultState(): the fields followed here
InitialDAWState == [isPlaying |-> FALSE, bpm |-> 120]

\* arr.slice(-n)
SliceLast(arr, n) ==
    IF Len(arr) <= n THEN arr ELSE SubSeq(arr, Len(arr) - n + 1, Len(arr))

\* useUndoRedo.setState with a new state object that is no time update
useUndoRedo_setState(h, newState) ==
    [past |-> SliceLast(Append(h.past, h.present), MAX_HISTORY),
     present |-> newState, future |-> <<>>]

\* useUndoRedo.setVisualState(updater)
useUndoRedo_setVisualState(h, newState) == [h EXCEPT !.present = newState]

\* undo of useUndoRedo and of the store
undo(h) ==
    IF Len(h.past) = 0 THEN h
    ELSE [past |-> SubSeq(h.past, 1, Len(h.past) - 1),
          present |-> h.past[Len(h.past)],
          future |-> <<h.present>> \o h.future]

\* redo of useUndoRedo and of the store
redo(h) ==
    IF Len(h.future) = 0 THEN h
    ELSE [past |-> Append(h.past, h.present),
          present |-> h.future[1],
          future |-> Tail(h.future)]

\* what the transport handlers leave alone
transportFrame ==
    <<kind, params, conn, log, lfo, curve, pan, gate, worklet, rev, run, tracks,
      tracksDSP, intervals, instance, editor, copy, calc, before>>

\* App.handleTogglePlay, after ensureAudioEngine
handleTogglePlay ==
    /\ kind = "APP"
    /\ ctx' = TRUE
    /\ IF history.present.isPlaying
       THEN /\ timer' = FALSE
            /\ history' = useUndoRedo_setVisualState(history,
                              [history.present EXCEPT !.isPlaying = FALSE])
       ELSE /\ timer' = TRUE
            /\ history' = useUndoRedo_setVisualState(history,
                              [history.present EXCEPT !.isPlaying = TRUE])
    /\ last' = "handleTogglePlay"
    /\ UNCHANGED transportFrame

\* App.handleStop
handleStop ==
    /\ kind = "APP"
    /\ Len(history.past) < MaxHistory
    /\ timer' = FALSE
    /\ history' = useUndoRedo_setState(history,
                      [history.present EXCEPT !.isPlaying = FALSE])
    /\ last' = "handleStop"
    /\ UNCHANGED <<transportFrame, ctx>>

\* App.handleUpdateBpm(newBpm)
handleUpdateBpm ==
    /\ kind = "APP"
    /\ Len(history.past) < MaxHistory
    /\ \E newBpm \in Bpms :
          history' = useUndoRedo_setState(history,
                        [history.present EXCEPT
                            !.bpm = MathMax(20, MathMin(999, newBpm))])
    /\ last' = "handleUpdateBpm"
    /\ UNCHANGED <<transportFrame, ctx, timer>>

\* the undo button of the App
AppUndo ==
    /\ kind = "APP"
    /\ history' = undo(history)
    /\ last' = "undo"
    /\ UNCHANGED <<transportFrame, ctx, timer>>

\* the redo button of the App
AppRedo ==
    /\ kind = "APP"
    /\ history' = redo(history)
    /\ last' = "redo"
    /\ UNCHANGED <<transportFrame, ctx, timer>>

\* useDAWStore.play
play ==
    /\ kind = "STORE"
    /\ ctx' = TRUE
    /\ IF history.present.isPlaying
       THEN /\ timer' = FALSE
            /\ history' = [history EXCEPT !.present.isPlaying = FALSE]
       ELSE /\ timer' = TRUE
            /\ history' = [history EXCEPT !.present.isPlaying = TRUE]
    /\ last' = "play"
    /\ UNCHANGED transportFrame

\* useDAWStore.stop
stop ==
    /\ kind = "STORE"
    /\ timer' = FALSE
    /\ history' = [history EXCEPT !.present.isPlaying = FALSE]
    /\ last' = "stop"
    /\ UNCHANGED <<transportFrame, ctx>>

\* useDAWStore.setBpm(bpm)
setBpm ==
    /\ kind = "STORE"
    /\ Len(history.past) < MaxHistory
    /\ \E bpm \in Bpms :
          history' = [past |-> Append(history.past, history.present),
                      present |-> [history.present EXCEPT !.bpm = bpm],
                      future |-> <<>>]
    /\ last' = "setBpm"
    /\ UNCHANGED <<transportFrame, ctx, timer>>

\* useDAWStore.undo: the tracks of the restored state are sent to the engine
StoreUndo ==
    /\ kind = "STORE"
    /\ history' = undo(history)
    /\ last' = "undo"
    /\ UNCHANGED <<transportFrame, ctx, timer>>

\* useDAWStore.redo
StoreRedo ==
    /\ kind = "STORE"
    /\ history' = redo(history)
    /\ last' = "redo"
    /\ UNCHANGED <<transportFrame, ctx, timer>>

InitTransport ==
    /\ kind \in {"APP", "STORE"}
    /\ NoNode
    /\ ctx = FALSE
    /\ tracks = <<>>
    /\ tracksDSP = <<>>
    /\ instance = "none"
    /\ editor = "closed"
    /\ copy = "none"
    /\ calc = "none"
    /\ before = NoBefore
    /\ intervals = {}
    /\ history = [past |-> <<>>, present |-> InitialDAWState, future |-> <<>>]

NextTransport ==
    \/ handleTogglePlay \/ handleStop \/ handleUpdateBpm \/ AppUndo \/ AppRedo
    \/ play \/ stop \/ setBpm \/ StoreUndo \/ StoreRedo

SpecTransport == InitTransport /\ [][NextTransport]_vars

\* C30: after any play toggles, stops, edits, undos and redos, the isPlaying
\* flag of the application state equals the engine's playing status (its
\* scheduler timer is registered).
C30_IsPlayingMatchesEngine ==
    kind \in {"APP", "STORE"} => history.present.isPlaying = timer

====
